---- MODULE Spec2Model ----
(***************************************************************************)
(* Model of ImapService.getThread (src/src/imap-service.ts) together with  *)
(* the ImapService.getMessage call it awaits first.  One behaviour is one  *)
(* getThread(uid) invocation against one mailbox: the events of the two    *)
(* IMAP connections (ready, error, openBox, search, fetch) and the         *)
(* completions of the asynchronous simpleParser calls arrive in every      *)
(* order the event loop allows.  A second specification, ReplySpec, is    *)
(* one EmailOperations.replyToMessage or sendMessage invocation: the same  *)
(* getMessage machine, then the reply composition and the SMTP transport.  *)
(***************************************************************************)
EXTENDS Integers, Sequences, FiniteSets, TLC

\* ------------------------------------------------------------------ bounds

\* At most this many of the fan-out searches report an error in one run.
MaxSearchErrs == 2

\* At most this many simpleParser calls of the batch fetch throw in one run.
MaxParseFails == 2

\* ------------------------------------------------------------------ mailbox

\* An absent header (undefined in the parsed mail); falsy like the empty string.
NoTok == ""

Hdr(mid, irt, refs, date) ==
    [messageId |-> mid, inReplyTo |-> irt, references |-> refs, date |-> date,
     from |-> "", subject |-> "", text |-> ""]

\* A three-message conversation; dates out of UID order, with one tie.
ConversationBox ==
    << Hdr("a", NoTok, <<>>, 2),
       Hdr("b", "a", <<"a">>, 1),
       Hdr("c", "b", <<"a", "b">>, 2) >>

\* A message without threading headers, an orphaned reply whose parent is not
\* in the mailbox, and a lone root.
OrphanBox ==
    << Hdr(NoTok, NoTok, <<>>, 1),
       Hdr(NoTok, "z", <<>>, 1),
       Hdr("d", NoTok, <<>>, 2) >>

\* A reply that carries In-Reply-To but no Message-ID of its own, next to its
\* parent and a sibling; all three share one timestamp.
NoMessageIdBox ==
    << Hdr("a", NoTok, <<>>, 1),
       Hdr(NoTok, "a", <<>>, 1),
       Hdr("c", "a", <<"a">>, 1) >>

Mailboxes == {ConversationBox, OrphanBox, NoMessageIdBox}

VARIABLES
    mailbox,      \* the INBOX: sequence of headers, UID = index
    uid,          \* the UID the id names (attrs.uid of the target)
    idText,       \* the id string the operation was called with
    gmPc,         \* getMessage: progress of the commands on its connection
    gmFound,      \* getMessage: messageFound
    gmParse,      \* getMessage: state of the awaited simpleParser call
    gmFetchEnd,   \* getMessage: fetch 'end' was emitted
    gmFetchErr,   \* getMessage: fetch 'error' was emitted
    gmConnErr,    \* getMessage: connection 'error' was emitted
    gmEnded,      \* getMessage: imap.end() was called
    gmOutcome,    \* getMessage's promise: pending, message, null, rejected
    gmCause,      \* the handler that settled getMessage's promise
    original,     \* originalMessage (None until getMessage resolved with one)
    tPc,          \* getThread: progress after the await / on its own connection
    anchors,      \* threadMessageIds, in insertion order
    searchSt,     \* per fan-out search: pending, ok, err
    searchRes,    \* per fan-out search: the value its promise resolved with
    uniqueUids,   \* uniqueUids
    parseSt,      \* per fetched UID: none, parsing, ok, failed
    messages,     \* the messages array of the batch fetch
    collected,    \* ids in the order they were pushed to messages
    tFetchEnd,    \* getThread: fetch 'end' was emitted
    tFetchErr,    \* getThread: fetch 'error' was emitted
    tConnErr,     \* getThread: connection 'error' was emitted
    tEnded,       \* getThread: imap.end() was called on the second connection
    outcome,      \* getThread's promise: pending, resolved, rejected
    cause,        \* the handler that settled getThread's promise
    result,       \* the ThreadResult the promise resolved with
    rPc,          \* replyToMessage / sendMessage: position of the operation
    rBody,        \* params.body
    rQuote,       \* params.includeQuote
    senderCalls,  \* the ReplyParams handed to smtpService.sendReply
    mailOptions,  \* the mailOptions handed to transporter.sendMail
    smtp,         \* the promise of transporter.sendMail: none, pending, resolved, rejected
    rOutcome,     \* the operation's promise: pending, returned, thrown
    rResult,      \* the SendResult it returned
    call,         \* tool call: the request's name and arguments
    toolPc,       \* tool call: idle, received, rejected, running
    toolParams,   \* tool call: the parsed arguments (None before validation)
    imapOpened,   \* tool call: IMAP connections opened so far
    gaPc,         \* getAttachment: progress of the commands on its connection
    gaFound,      \* getAttachment: messageFound
    gaParse,      \* getAttachment: state of the awaited simpleParser call
    gaFetchEnd,   \* getAttachment: fetch 'end' was emitted
    gaFetchErr,   \* getAttachment: fetch 'error' was emitted
    gaConnErr,    \* getAttachment: connection 'error' was emitted
    gaEnded,      \* getAttachment: imap.end() was called
    gaOutcome,    \* getAttachment's promise: pending, content, null, rejected
    gaCause,      \* the handler that settled getAttachment's promise
    gaResult,     \* the AttachmentContent, or the message of the Error
    lsCount,      \* listMessages: count
    lsPc,         \* listMessages: progress of the commands on its connection
    lsRange,      \* listMessages: the sequence numbers of the fetched range
    lsSeen,       \* listMessages: sequence numbers whose msg 'end' handler ran
    lsMessages,   \* listMessages: the messages array
    lsFetchErr,   \* listMessages: fetch 'error' was emitted
    lsConnErr,    \* listMessages: connection 'error' was emitted
    lsEnded,      \* listMessages: imap.end() was called
    lsOutcome,    \* listMessages' promise: pending, resolved, rejected
    lsCause,      \* the handler that settled listMessages' promise
    lsResult,     \* the array the promise resolved with
    opened,       \* the openBox calls made: operation and the readOnly argument
    seenFlags,    \* the UIDs whose message carries \Seen on the server
    seenAtCall,   \* seenFlags when the operation was called
    mkPc,         \* markAsRead: progress of the commands on its connection
    mkRead,       \* markAsRead: read
    mkConnErr,    \* markAsRead: connection 'error' was emitted
    mkEnded,      \* markAsRead: imap.end() was called
    mkOutcome,    \* markAsRead's promise: pending, resolved, rejected
    mkResult,     \* the OperationResult it resolved with
    smPc,         \* searchMessages: progress of the commands on its connection
    smHits,       \* searchMessages: the UIDs the server finds for the query
    smSeen,       \* searchMessages: UIDs whose msg 'end' handler ran
    smMessages,   \* searchMessages: the messages array
    smFetchErr,   \* searchMessages: fetch 'error' was emitted
    smConnErr,    \* searchMessages: connection 'error' was emitted
    smEnded,      \* searchMessages: imap.end() was called
    smOutcome,    \* searchMessages' promise: pending, resolved, rejected
    smCause,      \* the handler that settled searchMessages' promise
    smResult      \* the SearchResult the promise resolved with

gmVars == <<gmPc, gmFound, gmParse, gmFetchEnd, gmFetchErr, gmConnErr, gmEnded,
            gmOutcome, gmCause, original>>
searchVars == <<anchors, searchSt, searchRes, uniqueUids>>
fetchVars == <<parseSt, messages, collected, tFetchEnd, tFetchErr>>
promiseVars == <<outcome, cause, result>>
replyVars == <<rPc, rBody, rQuote, senderCalls, mailOptions, smtp, rOutcome, rResult>>
gaVars == <<gaPc, gaFound, gaParse, gaFetchEnd, gaFetchErr, gaConnErr, gaEnded,
            gaOutcome, gaCause, gaResult>>
toolVars == <<call, toolPc, toolParams, imapOpened, gaVars>>
listVars == <<lsCount, lsPc, lsRange, lsSeen, lsMessages, lsFetchErr, lsConnErr,
              lsEnded, lsOutcome, lsCause, lsResult>>
inputVars == <<mailbox, uid, idText>>
boxVars == <<opened, seenFlags, seenAtCall>>
markVars == <<mkPc, mkRead, mkConnErr, mkEnded, mkOutcome, mkResult>>
searchMsgVars == <<smPc, smHits, smSeen, smMessages, smFetchErr, smConnErr, smEnded,
                   smOutcome, smCause, smResult>>
sideVars == <<markVars, searchMsgVars>>
vars == <<mailbox, uid, idText, gmVars, tPc, searchVars, fetchVars, tConnErr, tEnded,
          promiseVars, replyVars, toolVars, listVars, boxVars, markVars, searchMsgVars>>

None == [none |-> TRUE]

Exists(u) == u \in 1..Len(mailbox)

\* ------------------------------------------------------------------ pure helpers

Ch(s, i) == SubSeq(s, i, i)

\* The decimal value of a numeric id.
DigitValue(c) ==
    CHOOSE d \in 0..9 : ToString(d) = c

\* The UID a numeric id string names in imap.fetch([uid]).
RECURSIVE ToUid(_)
ToUid(s) ==
    IF s = "" THEN 0
    ELSE 10 * ToUid(SubSeq(s, 1, Len(s) - 1)) + DigitValue(Ch(s, Len(s)))

\* The id strings that name UID u: as attrs.uid.toString() prints it, and
\* with a leading zero.
IdTexts(u) == {ToString(u), "0" \o ToString(u)}

\* The EmailMessage getMessage builds from the parsed mail.
FullMessage(u) ==
    [id |-> ToString(u), threadId |-> ToString(u), date |-> mailbox[u].date,
     messageId |-> mailbox[u].messageId, inReplyTo |-> mailbox[u].inReplyTo,
     references |-> mailbox[u].references,
     subject |-> IF mailbox[u].subject # "" THEN mailbox[u].subject
                 ELSE "(No Subject)",
     from |-> mailbox[u].from,
     body |-> mailbox[u].text]

\* The EmailMessage the batch fetch builds: id from attrs.uid, threadId the id string.
ThreadMessage(u) ==
    [id |-> ToString(u), threadId |-> idText, date |-> mailbox[u].date,
     messageId |-> mailbox[u].messageId]

\* Set.add: append unless already present (insertion order is kept).
SetAdd(s, x) == IF \E i \in 1..Len(s) : s[i] = x THEN s ELSE Append(s, x)

RECURSIVE AddAll(_, _)
AddAll(s, xs) == IF xs = <<>> THEN s ELSE AddAll(SetAdd(s, Head(xs)), Tail(xs))

\* threadMessageIds: Message-ID, In-Reply-To, every References entry.
AnchorTokens(m) ==
    LET s1 == IF m.messageId # NoTok THEN SetAdd(<<>>, m.messageId) ELSE <<>>
        s2 == IF m.inReplyTo # NoTok THEN SetAdd(s1, m.inReplyTo) ELSE s1
    IN  AddAll(s2, m.references)

RECURSIVE Filter(_, _, _)
Filter(n, field, tok) ==
    IF n = 0 THEN <<>>
    ELSE LET rest == Filter(n - 1, field, tok)
             hit == IF field = "MESSAGE-ID"
                    THEN mailbox[n].messageId = tok
                    ELSE \E i \in 1..Len(mailbox[n].references) :
                            mailbox[n].references[i] = tok
         IN  IF hit THEN Append(rest, n) ELSE rest

\* imap.search([['HEADER', field, tok]]): the matching UIDs, ascending.
SearchHeader(field, tok) == Filter(Len(mailbox), field, tok)

\* The fan-out: searchPromises followed by refSearchPromises.
NumSearches == 2 * Len(anchors)
SearchField(i) == IF i <= Len(anchors) THEN "MESSAGE-ID" ELSE "REFERENCES"
SearchToken(i) == IF i <= Len(anchors) THEN anchors[i] ELSE anchors[i - Len(anchors)]

RECURSIVE Flat(_)
Flat(rs) == IF rs = <<>> THEN <<>> ELSE Head(rs) \o Flat(Tail(rs))

UniqueUidsDup(allResults) == Flat(allResults)

\* [...new Set(allResults.flat())]
UniqueUids(allResults) == AddAll(<<>>, Flat(allResults))

RECURSIVE InsertDesc(_, _)
InsertDesc(x, s) ==
    IF s = <<>> THEN <<x>>
    ELSE IF Head(s).date >= x.date THEN <<Head(s)>> \o InsertDesc(x, Tail(s))
         ELSE <<x>> \o s

RECURSIVE SortByDateDesc(_)
SortByDateDesc(s) ==
    IF s = <<>> THEN <<>>
    ELSE InsertDesc(s[Len(s)], SortByDateDesc(SubSeq(s, 1, Len(s) - 1)))

\* x goes behind every element that does not compare greater: stable.
RECURSIVE Insert(_, _)
Insert(x, s) ==
    IF s = <<>> THEN <<x>>
    ELSE IF Head(s).date - x.date <= 0 THEN <<Head(s)>> \o Insert(x, Tail(s))
         ELSE <<x>> \o s

\* messages.sort((a, b) => time(a.date) - time(b.date)): ascending, stable.
RECURSIVE SortByDate(_)
SortByDate(s) ==
    IF s = <<>> THEN <<>>
    ELSE Insert(s[Len(s)], SortByDate(SubSeq(s, 1, Len(s) - 1)))

EmptyResultOne(id) == [messages |-> <<>>, threadId |-> id, messageCount |-> 1]

EmptyResult(id) == [messages |-> <<>>, threadId |-> id, messageCount |-> 0]

SingletonResultEmpty(m, id) == [messages |-> <<>>, threadId |-> id, messageCount |-> 0]

SingletonResult(m, id) == [messages |-> <<m>>, threadId |-> id, messageCount |-> 1]

FullResult(ms, id) == [messages |-> ms, threadId |-> id, messageCount |-> Len(ms)]

\* A promise settles once: a later resolve or reject changes nothing.
Settle(kind, by, value) ==
    IF outcome = "pending"
    THEN outcome' = kind /\ cause' = by /\ result' = value
    ELSE UNCHANGED promiseVars

GmSettle(kind, by) ==
    IF gmOutcome = "pending"
    THEN gmOutcome' = kind /\ gmCause' = by
    ELSE UNCHANGED <<gmOutcome, gmCause>>

\* ------------------------------------------------------------------ initial state

\* getMessage was called: createConnection() and imap.connect().
GmStart ==
    /\ gmPc = "connecting"
    /\ gmFound = FALSE
    /\ gmParse = "none"
    /\ gmFetchEnd = FALSE
    /\ gmFetchErr = FALSE
    /\ gmConnErr = FALSE
    /\ gmEnded = FALSE
    /\ gmOutcome = "pending"
    /\ gmCause = "none"
    /\ original = None

\* Nothing of the thread resolver has run.
ThreadFresh ==
    /\ anchors = <<>>
    /\ searchSt = <<>>
    /\ searchRes = <<>>
    /\ uniqueUids = <<>>
    /\ parseSt = <<>>
    /\ messages = <<>>
    /\ collected = <<>>
    /\ tFetchEnd = FALSE
    /\ tFetchErr = FALSE
    /\ tConnErr = FALSE
    /\ tEnded = FALSE
    /\ outcome = "pending"
    /\ cause = "none"
    /\ result = None

\* No reply or send operation is running.
ReplyIdle ==
    /\ rPc = "idle"
    /\ rBody = ""
    /\ rQuote = FALSE
    /\ senderCalls = <<>>
    /\ mailOptions = <<>>
    /\ smtp = "none"
    /\ rOutcome = "none"
    /\ rResult = None

\* No getAttachment call is running.
GaIdle ==
    /\ gaPc = "idle"
    /\ gaFound = FALSE
    /\ gaParse = "none"
    /\ gaFetchEnd = FALSE
    /\ gaFetchErr = FALSE
    /\ gaConnErr = FALSE
    /\ gaEnded = FALSE
    /\ gaOutcome = "none"
    /\ gaCause = "none"
    /\ gaResult = None

\* No listMessages call is running.
ListIdle ==
    /\ lsCount = 0
    /\ lsPc = "idle"
    /\ lsRange = <<>>
    /\ lsSeen = {}
    /\ lsMessages = <<>>
    /\ lsFetchErr = FALSE
    /\ lsConnErr = FALSE
    /\ lsEnded = FALSE
    /\ lsOutcome = "none"
    /\ lsCause = "none"
    /\ lsResult = None

\* No markAsRead call is running.
MarkIdle ==
    /\ mkPc = "idle"
    /\ mkRead = FALSE
    /\ mkConnErr = FALSE
    /\ mkEnded = FALSE
    /\ mkOutcome = "none"
    /\ mkResult = None

\* No searchMessages call is running.
SearchIdle ==
    /\ smPc = "idle"
    /\ smHits = <<>>
    /\ smSeen = {}
    /\ smMessages = <<>>
    /\ smFetchErr = FALSE
    /\ smConnErr = FALSE
    /\ smEnded = FALSE
    /\ smOutcome = "none"
    /\ smCause = "none"
    /\ smResult = None

\* No mailbox was opened yet and no message carries \Seen.
BoxFresh ==
    /\ opened = {}
    /\ seenFlags = {}
    /\ seenAtCall = {}

\* No tool call is being handled.
ToolIdle ==
    /\ call = None
    /\ toolPc = "idle"
    /\ toolParams = None
    /\ imapOpened = 0
    /\ GaIdle

Init ==
    /\ mailbox \in Mailboxes
    /\ uid \in 1..(Len(mailbox) + 1)
    /\ idText \in IdTexts(uid)
    /\ GmStart
    /\ tPc = "awaitTarget"
    /\ ThreadFresh
    /\ BoxFresh
    /\ MarkIdle
    /\ SearchIdle
    /\ ReplyIdle
    /\ ToolIdle
    /\ ListIdle

\* The state of the thread resolver, which the reply operations never touch.
resolverVars == <<tPc, searchVars, fetchVars, tConnErr, tEnded, promiseVars>>

\* Everything outside getMessage.
threadVars == <<resolverVars, replyVars, toolVars, listVars>>

\* ------------------------------------------------------------------ mailbox modes

\* imap.openBox('INBOX', readOnly, ...) was called by an operation.
OpenBox(op, readOnly) ==
    opened' = opened \cup {[op |-> op, readOnly |-> readOnly]}

ReadOnlyBox(op) == \A o \in opened : o.op = op => o.readOnly

\* A fetch of message bodies.  In a mailbox opened read-only the flags stay;
\* in one opened read-write the server sets \Seen unless the fetch peeks.
FetchBodies(op, uids) ==
    IF ReadOnlyBox(op)
    THEN seenFlags' = seenFlags
    ELSE seenFlags' \in {seenFlags, seenFlags \cup uids}

\* ------------------------------------------------------------------ getMessage

GmReadyReadWrite ==
    /\ gmPc = "connecting"
    /\ gmPc' = "opening"
    /\ OpenBox("getMessage", FALSE)
    /\ UNCHANGED <<inputVars, sideVars, seenFlags, seenAtCall, gmFound, gmParse, gmFetchEnd,
                   gmFetchErr, gmConnErr, gmEnded, gmOutcome, gmCause, original, threadVars>>

\* 'ready': imap.openBox('INBOX', true, ...)
GmReady ==
    /\ gmPc = "connecting"
    /\ gmPc' = "opening"
    /\ OpenBox("getMessage", TRUE)
    /\ UNCHANGED <<inputVars, sideVars, seenFlags, seenAtCall, gmFound, gmParse, gmFetchEnd, gmFetchErr,
                   gmConnErr, gmEnded, gmOutcome, gmCause, original, threadVars>>

GmOpenBoxErr ==
    /\ gmPc = "opening"
    /\ gmPc' = "closed"
    /\ gmEnded' = TRUE
    /\ GmSettle("rejected", "openBoxError")
    /\ UNCHANGED <<inputVars, sideVars, boxVars, gmFound, gmParse, gmFetchEnd, gmFetchErr,
                   gmConnErr, original, threadVars>>

GmOpenBoxOk ==
    /\ gmPc = "opening"
    /\ gmPc' = "fetching"
    /\ UNCHANGED <<inputVars, sideVars, boxVars, gmFound, gmParse, gmFetchEnd, gmFetchErr,
                   gmConnErr, gmEnded, gmOutcome, gmCause, original, threadVars>>

\* fetch 'message' up to msg 'end': the handler starts simpleParser.
GmFetchMessage ==
    /\ gmPc = "fetching"
    /\ ~gmFound /\ ~gmFetchEnd /\ ~gmFetchErr
    /\ Exists(uid)
    /\ gmFound' = TRUE
    /\ gmParse' = "parsing"
    /\ FetchBodies("getMessage", {uid})
    /\ UNCHANGED <<inputVars, sideVars, opened, seenAtCall, gmPc, gmFetchEnd, gmFetchErr, gmConnErr,
                   gmEnded, gmOutcome, gmCause, original, threadVars>>

GmParseOk ==
    /\ gmParse = "parsing"
    /\ gmParse' = "ok"
    /\ gmEnded' = TRUE
    /\ GmSettle("message", "parsed")
    /\ original' = IF gmOutcome = "pending" THEN FullMessage(uid) ELSE original
    /\ UNCHANGED <<inputVars, sideVars, boxVars, gmPc, gmFound, gmFetchEnd, gmFetchErr,
                   gmConnErr, threadVars>>

GmParseFail ==
    /\ gmParse = "parsing"
    /\ gmParse' = "failed"
    /\ gmEnded' = TRUE
    /\ GmSettle("rejected", "parseError")
    /\ UNCHANGED <<inputVars, sideVars, boxVars, gmPc, gmFound, gmFetchEnd, gmFetchErr,
                   gmConnErr, original, threadVars>>

GmFetchError ==
    /\ gmPc = "fetching"
    /\ ~gmFetchErr /\ ~gmFetchEnd
    /\ gmFetchErr' = TRUE
    /\ gmEnded' = TRUE
    /\ GmSettle("rejected", "fetchError")
    /\ UNCHANGED <<inputVars, sideVars, boxVars, gmPc, gmFound, gmParse, gmFetchEnd,
                   gmConnErr, original, threadVars>>

GmFetchEndRejects ==
    /\ gmPc = "fetching"
    /\ ~gmFetchEnd
    /\ gmFound \/ ~Exists(uid) \/ gmFetchErr
    /\ gmFetchEnd' = TRUE
    /\ IF ~gmFound
       THEN gmEnded' = TRUE /\ GmSettle("rejected", "notFound")
       ELSE UNCHANGED <<gmEnded, gmOutcome, gmCause>>
    /\ UNCHANGED <<inputVars, sideVars, boxVars, gmPc, gmFound, gmParse, gmFetchErr,
                   gmConnErr, original, threadVars>>

\* fetch 'end': resolve(null) when no 'message' event was seen.
GmFetchEnd ==
    /\ gmPc = "fetching"
    /\ ~gmFetchEnd
    /\ gmFound \/ ~Exists(uid) \/ gmFetchErr
    /\ gmFetchEnd' = TRUE
    /\ IF ~gmFound
       THEN gmEnded' = TRUE /\ GmSettle("null", "notFound")
       ELSE UNCHANGED <<gmEnded, gmOutcome, gmCause>>
    /\ UNCHANGED <<inputVars, sideVars, boxVars, gmPc, gmFound, gmParse, gmFetchErr,
                   gmConnErr, original, threadVars>>

\* imap.once('error'): rejects, and no command on this connection completes.
GmConnError ==
    /\ gmPc \in {"connecting", "opening", "fetching"}
    /\ ~gmConnErr
    /\ gmConnErr' = TRUE
    /\ gmPc' = "dead"
    /\ GmSettle("rejected", "connError")
    /\ UNCHANGED <<inputVars, sideVars, boxVars, gmFound, gmParse, gmFetchEnd, gmFetchErr,
                   gmEnded, original, threadVars>>

\* ------------------------------------------------------------------ getThread

frameBase == <<inputVars, sideVars, gmVars, replyVars, toolVars, listVars>>

frame == <<frameBase, boxVars>>

\* catch (error): the awaited getMessage rejected.
ThreadCatchEmpty ==
    /\ tPc = "awaitTarget"
    /\ gmOutcome = "rejected"
    /\ tPc' = "done"
    /\ Settle("resolved", "catch", EmptyResult(idText))
    /\ UNCHANGED <<frame, searchVars, fetchVars, tConnErr, tEnded>>

ThreadCatch ==
    /\ tPc = "awaitTarget"
    /\ gmOutcome = "rejected"
    /\ tPc' = "done"
    /\ Settle("rejected", "catch", None)
    /\ UNCHANGED <<frame, searchVars, fetchVars, tConnErr, tEnded>>

\* if (!originalMessage)
ThreadNotFound ==
    /\ tPc = "awaitTarget"
    /\ gmOutcome = "null"
    /\ tPc' = "done"
    /\ Settle("resolved", "notFound", EmptyResult(idText))
    /\ UNCHANGED <<frame, searchVars, fetchVars, tConnErr, tEnded>>

\* threadMessageIds.size === 0
ThreadNoAnchors ==
    /\ tPc = "awaitTarget"
    /\ gmOutcome = "message"
    /\ AnchorTokens(original) = <<>>
    /\ tPc' = "done"
    /\ Settle("resolved", "noAnchors", SingletonResult(original, idText))
    /\ UNCHANGED <<frame, searchVars, fetchVars, tConnErr, tEnded>>

\* createConnection() ... imap.connect() for the search phase.
ThreadConnect ==
    /\ tPc = "awaitTarget"
    /\ gmOutcome = "message"
    /\ AnchorTokens(original) # <<>>
    /\ anchors' = AnchorTokens(original)
    /\ tPc' = "connecting"
    /\ UNCHANGED <<frame, searchSt, searchRes, uniqueUids, fetchVars, tConnErr,
                   tEnded, promiseVars>>

TReady ==
    /\ tPc = "connecting"
    /\ tPc' = "opening"
    /\ OpenBox("getThread", TRUE)
    /\ UNCHANGED <<frameBase, seenFlags, seenAtCall, searchVars, fetchVars, tConnErr, tEnded, promiseVars>>

TOpenBoxErrRejects ==
    /\ tPc = "opening"
    /\ tPc' = "closed"
    /\ tEnded' = TRUE
    /\ Settle("rejected", "openBoxError", None)
    /\ UNCHANGED <<frame, searchVars, fetchVars, tConnErr>>

TOpenBoxErr ==
    /\ tPc = "opening"
    /\ tPc' = "closed"
    /\ tEnded' = TRUE
    /\ Settle("resolved", "openBoxError", SingletonResult(original, idText))
    /\ UNCHANGED <<frame, searchVars, fetchVars, tConnErr>>

\* openBox succeeded: both search fan-outs are issued.
TOpenBoxOk ==
    /\ tPc = "opening"
    /\ tPc' = "searching"
    /\ searchSt' = [i \in 1..NumSearches |-> "pending"]
    /\ searchRes' = [i \in 1..NumSearches |-> <<>>]
    /\ UNCHANGED <<frame, anchors, uniqueUids, fetchVars, tConnErr, tEnded,
                   promiseVars>>

TSearchOkKeepsLast(i) ==
    /\ tPc = "searching"
    /\ searchSt[i] = "pending"
    /\ searchSt' = [searchSt EXCEPT ![i] = "ok"]
    /\ searchRes' = [j \in 1..Len(searchRes) |->
                        IF j = i THEN SearchHeader(SearchField(i), SearchToken(i))
                        ELSE <<>>]
    /\ UNCHANGED <<frame, tPc, anchors, uniqueUids, fetchVars, tConnErr, tEnded,
                   promiseVars>>

\* res(err ? [] : (results || []))
TSearchOk(i) ==
    /\ tPc = "searching"
    /\ searchSt[i] = "pending"
    /\ searchSt' = [searchSt EXCEPT ![i] = "ok"]
    /\ searchRes' = [searchRes EXCEPT ![i] = SearchHeader(SearchField(i), SearchToken(i))]
    /\ UNCHANGED <<frame, tPc, anchors, uniqueUids, fetchVars, tConnErr, tEnded,
                   promiseVars>>

TSearchErrDiscards(i) ==
    /\ tPc = "searching"
    /\ searchSt[i] = "pending"
    /\ Cardinality({j \in 1..Len(searchSt) : searchSt[j] = "err"}) < MaxSearchErrs
    /\ searchSt' = [searchSt EXCEPT ![i] = "err"]
    /\ searchRes' = [j \in 1..Len(searchRes) |-> <<>>]
    /\ UNCHANGED <<frame, tPc, anchors, uniqueUids, fetchVars, tConnErr, tEnded,
                   promiseVars>>

TSearchErr(i) ==
    /\ tPc = "searching"
    /\ searchSt[i] = "pending"
    /\ Cardinality({j \in 1..Len(searchSt) : searchSt[j] = "err"}) < MaxSearchErrs
    /\ searchSt' = [searchSt EXCEPT ![i] = "err"]
    /\ searchRes' = [searchRes EXCEPT ![i] = <<>>]
    /\ UNCHANGED <<frame, tPc, anchors, uniqueUids, fetchVars, tConnErr, tEnded,
                   promiseVars>>

AllSearchesDone == \A i \in 1..Len(searchSt) : searchSt[i] # "pending"

TAfterSearchesEarly ==
    /\ tPc = "searching"
    /\ \E i \in 1..Len(searchSt) : searchSt[i] # "pending"
    /\ uniqueUids' = UniqueUids(searchRes)
    /\ IF uniqueUids' = <<>>
       THEN /\ tPc' = "closed"
            /\ tEnded' = TRUE
            /\ Settle("resolved", "noUids", SingletonResult(original, idText))
            /\ UNCHANGED parseSt
       ELSE /\ tPc' = "fetching"
            /\ parseSt' = [i \in 1..Len(uniqueUids') |-> "none"]
            /\ UNCHANGED <<tEnded, promiseVars>>
    /\ UNCHANGED <<frame, anchors, searchSt, searchRes, messages, collected,
                   tFetchEnd, tFetchErr, tConnErr>>

\* After await Promise.all, without the uniqueUids.length === 0 fallback.
TAfterSearchesNoFallback ==
    /\ tPc = "searching"
    /\ AllSearchesDone
    /\ uniqueUids' = UniqueUids(searchRes)
    /\ tPc' = "fetching"
    /\ parseSt' = [i \in 1..Len(uniqueUids') |-> "none"]
    /\ UNCHANGED <<tEnded, promiseVars>>
    /\ UNCHANGED <<frame, anchors, searchSt, searchRes, messages, collected,
                   tFetchEnd, tFetchErr, tConnErr>>

\* After await Promise.all: dedupe, fall back to the singleton or issue the fetch.
TAfterSearches ==
    /\ tPc = "searching"
    /\ AllSearchesDone
    /\ uniqueUids' = UniqueUids(searchRes)
    /\ IF uniqueUids' = <<>>
       THEN /\ tPc' = "closed"
            /\ tEnded' = TRUE
            /\ Settle("resolved", "noUids", SingletonResult(original, idText))
            /\ UNCHANGED parseSt
       ELSE /\ tPc' = "fetching"
            /\ parseSt' = [i \in 1..Len(uniqueUids') |-> "none"]
            /\ UNCHANGED <<tEnded, promiseVars>>
    /\ UNCHANGED <<frame, anchors, searchSt, searchRes, messages, collected,
                   tFetchEnd, tFetchErr, tConnErr>>

\* fetch 'message' up to msg 'end' for the i-th fetched UID: simpleParser starts.
TFetchMessage(i) ==
    /\ tPc = "fetching"
    /\ ~tFetchEnd /\ ~tFetchErr
    /\ parseSt[i] = "none"
    /\ parseSt' = [parseSt EXCEPT ![i] = "parsing"]
    /\ FetchBodies("getThread", {uniqueUids[i]})
    /\ UNCHANGED <<frameBase, opened, seenAtCall, tPc, searchVars, messages, collected, tFetchEnd,
                   tFetchErr, tConnErr, tEnded, promiseVars>>

\* The awaited simpleParser resolved: messages.push(message).
TParseOk(i) ==
    /\ i \in 1..Len(parseSt)
    /\ parseSt[i] = "parsing"
    /\ parseSt' = [parseSt EXCEPT ![i] = "ok"]
    /\ messages' = Append(messages, ThreadMessage(uniqueUids[i]))
    /\ collected' = Append(collected, uniqueUids[i])
    /\ UNCHANGED <<frame, tPc, searchVars, tFetchEnd, tFetchErr, tConnErr,
                   tEnded, promiseVars>>

\* The awaited simpleParser threw: logged, the message is dropped.
TParseFail(i) ==
    /\ i \in 1..Len(parseSt)
    /\ parseSt[i] = "parsing"
    /\ Cardinality({j \in 1..Len(parseSt) : parseSt[j] = "failed"}) < MaxParseFails
    /\ parseSt' = [parseSt EXCEPT ![i] = "failed"]
    /\ UNCHANGED <<frame, tPc, searchVars, messages, collected, tFetchEnd,
                   tFetchErr, tConnErr, tEnded, promiseVars>>

TFetchErrorRejects ==
    /\ tPc = "fetching"
    /\ ~tFetchErr /\ ~tFetchEnd
    /\ tFetchErr' = TRUE
    /\ tEnded' = TRUE
    /\ Settle("rejected", "fetchError", None)
    /\ UNCHANGED <<frame, tPc, searchVars, parseSt, messages, collected,
                   tFetchEnd, tConnErr>>

TFetchError ==
    /\ tPc = "fetching"
    /\ ~tFetchErr /\ ~tFetchEnd
    /\ tFetchErr' = TRUE
    /\ tEnded' = TRUE
    /\ Settle("resolved", "fetchError", SingletonResult(original, idText))
    /\ UNCHANGED <<frame, tPc, searchVars, parseSt, messages, collected,
                   tFetchEnd, tConnErr>>

\* fetch 'end': every message event was emitted (or the fetch failed); the
\* parses started by the msg 'end' handlers may still be awaiting simpleParser.
TFetchEnd ==
    /\ tPc = "fetching"
    /\ ~tFetchEnd
    /\ tFetchErr \/ \A i \in 1..Len(parseSt) : parseSt[i] # "none"
    /\ tFetchEnd' = TRUE
    /\ tEnded' = TRUE
    /\ messages' = SortByDate(messages)
    /\ Settle("resolved", "fetchEnd", FullResult(messages', idText))
    /\ UNCHANGED <<frame, tPc, searchVars, parseSt, collected, tFetchErr,
                   tConnErr>>

\* imap.once('error') of the second connection; no command completes after it.
TConnError ==
    /\ tPc \in {"connecting", "opening", "searching", "fetching"}
    /\ ~tConnErr
    /\ tConnErr' = TRUE
    /\ tPc' = "dead"
    /\ Settle("resolved", "connError", SingletonResult(original, idText))
    /\ UNCHANGED <<frame, searchVars, fetchVars, tEnded>>

\* ------------------------------------------------------------------ specification

Next ==
    \/ GmReady
    \/ GmOpenBoxErr
    \/ GmOpenBoxOk
    \/ GmFetchMessage
    \/ GmParseOk
    \/ GmParseFail
    \/ GmFetchError
    \/ GmFetchEnd
    \/ GmConnError
    \/ ThreadCatch
    \/ ThreadNotFound
    \/ ThreadNoAnchors
    \/ ThreadConnect
    \/ TReady
    \/ TOpenBoxErr
    \/ TOpenBoxOk
    \/ \E i \in 1..Len(searchSt) : TSearchOk(i)
    \/ \E i \in 1..Len(searchSt) : TSearchErr(i)
    \/ TAfterSearches
    \/ \E i \in 1..Len(parseSt) : TFetchMessage(i)
    \/ \E i \in 1..Len(parseSt) : TParseOk(i)
    \/ \E i \in 1..Len(parseSt) : TParseFail(i)
    \/ TFetchError
    \/ TFetchEnd
    \/ TConnError

Spec == Init /\ [][Next]_vars

\* ------------------------------------------------------------------ strings

\* String.prototype.includes for a one-character needle.
Includes(s, c) == \E i \in 1..Len(s) : Ch(s, i) = c

StartsWith(s, p) == Len(s) >= Len(p) /\ SubSeq(s, 1, Len(p)) = p

\* String.prototype.includes for any needle.
Contains(s, sub) ==
    \E i \in 1..(Len(s) - Len(sub) + 1) : SubSeq(s, i, i + Len(sub) - 1) = sub

Min(S) == CHOOSE x \in S : \A y \in S : x <= y

Max(S) == CHOOSE x \in S : \A y \in S : x >= y

\* The regular expression class \s, for the characters the model uses.
IsSpace(c) == c \in {" ", "\t", "\n", "\r"}

NoMatch == [ok |-> FALSE, group |-> ""]

\* from.match(/<([^>]+)>/): the leftmost '<' that is followed by at least one
\* character other than '>' and then a '>'; the group is what lies between.
BracketMatch(s) ==
    LET Close(i) == {j \in (i + 1)..Len(s) : Ch(s, j) = ">"}
        starts == {i \in 1..Len(s) :
                     Ch(s, i) = "<" /\ Close(i) # {} /\ Min(Close(i)) > i + 1}
    IN  IF starts = {} THEN NoMatch
        ELSE LET i == Min(starts)
             IN  [ok |-> TRUE, group |-> SubSeq(s, i + 1, Min(Close(i)) - 1)]

\* [^\s<]
InLocal(c) == ~IsSpace(c) /\ c # "<"

\* [^\s>]
InDomain(c) == ~IsSpace(c) /\ c # ">"

\* from.match(/([^\s<]+@[^\s>]+)/): leftmost start, both quantifiers greedy.
BareMatch(s) ==
    LET Ats(i) == {k \in (i + 1)..(Len(s) - 1) :
                     /\ Ch(s, k) = "@"
                     /\ \A m \in i..k : InLocal(Ch(s, m))
                     /\ InDomain(Ch(s, k + 1))}
        starts == {i \in 1..Len(s) : Ats(i) # {}}
    IN  IF starts = {} THEN NoMatch
        ELSE LET i == Min(starts)
                 k == Max(Ats(i))
                 e == Max({n \in (k + 1)..Len(s) :
                             \A m \in (k + 1)..n : InDomain(Ch(s, m))})
             IN  [ok |-> TRUE, group |-> SubSeq(s, i, e)]

\* String.prototype.split('\n')
RECURSIVE SplitLines(_)
SplitLines(s) ==
    IF ~Includes(s, "\n") THEN <<s>>
    ELSE LET i == Min({k \in 1..Len(s) : Ch(s, k) = "\n"})
         IN  <<SubSeq(s, 1, i - 1)>> \o SplitLines(SubSeq(s, i + 1, Len(s)))

\* Array.prototype.join
RECURSIVE JoinWith(_, _)
JoinWith(xs, sep) ==
    IF xs = <<>> THEN ""
    ELSE IF Len(xs) = 1 THEN xs[1]
         ELSE xs[1] \o sep \o JoinWith(Tail(xs), sep)

\* ------------------------------------------------------------------ reply composition

\* getMessageHeaders: the fields of the fetched message the reply needs.
MessageHeaders(m) ==
    [from |-> m.from,
     subject |-> m.subject,
     messageId |-> m.messageId,
     references |-> SelectSeq(m.references \o <<m.messageId>>, LAMBDA r : r # ""),
     date |-> m.date,
     body |-> m.body]

ExtractReplyToBareFirst(from) ==
    LET b == BareMatch(from)
        m == IF b.ok THEN b ELSE BracketMatch(from)
    IN  IF m.ok THEN m.group ELSE from

\* fromMatch ? fromMatch[1] : originalHeaders.from
ExtractReplyTo(from) ==
    LET b == BracketMatch(from)
        m == IF b.ok THEN b ELSE BareMatch(from)
    IN  IF m.ok THEN m.group ELSE from

\* The negation of (!replyTo || !replyTo.includes('@')).
AddressUsable(replyTo) == replyTo # "" /\ Includes(replyTo, "@")

QuotedBodyFirstLineOnly(body) == "> " \o body

\* body.split('\n').map(line => `> ${line}`).join('\n')
QuotedBody(body) ==
    LET lines == SplitLines(body)
    IN  JoinWith([i \in 1..Len(lines) |-> "> " \o lines[i]], "\n")

\* new Date(date).toLocaleString(): some rendering of the date.
LocaleString(d) == "D" \o ToString(d)

\* replyBody of replyToMessage.
ReplyBody(body, includeQuote, h) ==
    IF includeQuote /\ h.body # ""
    THEN body \o "\n\n---\nOn " \o LocaleString(h.date) \o ", " \o h.from
              \o " wrote:\n" \o QuotedBody(h.body)
    ELSE body

\* The ReplyParams replyToMessage hands to smtpService.sendReply.
ReplyParams(to, body, h) ==
    [to |-> to, subject |-> h.subject, body |-> body,
     inReplyTo |-> h.messageId, references |-> h.references]

ReplySubjectAlways(subject) == "Re: " \o subject

\* params.subject.startsWith('Re:') ? params.subject : `Re: ${params.subject}`
ReplySubject(subject) ==
    IF StartsWith(subject, "Re:") THEN subject ELSE "Re: " \o subject

\* this.config.user
SmtpUser == "me@example.com"

SendReplyOptionsNoThreading(params) ==
    [from |-> SmtpUser, to |-> params.to,
     subject |-> ReplySubject(params.subject), text |-> params.body]

\* mailOptions of sendReply: the threading headers are set only if available.
SendReplyOptions(params) ==
    [from |-> SmtpUser, to |-> params.to,
     subject |-> ReplySubject(params.subject), text |-> params.body]
    @@ (IF params.inReplyTo # "" THEN [inReplyTo |-> params.inReplyTo]
        ELSE [from |-> SmtpUser])
    @@ (IF Len(params.references) > 0
        THEN [references |-> JoinWith(params.references, " ")]
        ELSE [from |-> SmtpUser])

\* mailOptions of sendMessage.
SendMessageOptions(params) ==
    [from |-> SmtpUser, to |-> params.to, subject |-> params.subject,
     text |-> params.body]

\* info.messageId of an accepted message.
SentId == "<sent@smtp>"

FailureResultWithId(message) ==
    [messageId |-> SentId, success |-> FALSE, message |-> message]

\* { messageId: '', success: false, message }
FailureResult(message) ==
    [messageId |-> "", success |-> FALSE, message |-> message]

SuccessResult(message) ==
    [messageId |-> SentId, success |-> TRUE, message |-> message]

\* The message of the Error getMessage rejected with.
GmErrorMessage ==
    IF gmCause = "openBoxError" THEN "Failed to open inbox: error"
    ELSE IF gmCause = "parseError" THEN "Failed to parse message: error"
    ELSE IF gmCause = "fetchError" THEN "Fetch error: error"
    ELSE "IMAP connection error: error"

\* ------------------------------------------------------------------ reply inputs

\* Longest From header, subject and body text drawn from the small alphabets.
MaxFromLen == 4

MaxSubjectLen == 3

MaxBodyLen == 3

RECURSIVE Strs(_, _)
Strs(alphabet, n) ==
    IF n = 0 THEN {""}
    ELSE LET shorter == Strs(alphabet, n - 1)
         IN  shorter \cup {s \o c : s \in shorter, c \in alphabet}

Froms ==
    Strs({"<", ">", "@", " ", "j"}, MaxFromLen)
        \cup {"Jane Doe <jane@example.com>", "jane@example.com", "Jane Doe",
              "j@work <jane@example.com>"}

Subjects ==
    Strs({"R", "e", "E", ":"}, MaxSubjectLen)
        \cup {"Meeting", "Re: Meeting", "RE: Meeting", "re: Meeting"}

Bodies == Strs({"a", "\n"}, MaxBodyLen) \cup {"line1\nline2"}

ReferenceLists == {<<>>, <<"<b@x>">>, <<"<b@x>", "<c@x>">>, <<"<b@x>", "">>}

Mail(from, subject, text, mid, refs) ==
    [messageId |-> mid, inReplyTo |-> NoTok, references |-> refs, date |-> 1,
     from |-> from, subject |-> subject, text |-> text]

\* One header varies at a time around a plain message.
ReplyMails ==
    {Mail(f, "Meeting", "line1\nline2", "<a@x>", <<"<b@x>">>) : f \in Froms}
        \cup {Mail("jane@example.com", sj, "hi", "<a@x>", <<>>) : sj \in Subjects}
        \cup {Mail("Jane Doe <jane@example.com>", "Meeting", b, "<a@x>", <<>>) :
                b \in Bodies}
        \cup {Mail("jane@example.com", "Meeting", "", mid, refs) :
                mid \in {NoTok, "<a@x>"}, refs \in ReferenceLists}

ReplyBodies == {"Thanks!\nBye"}

\* ------------------------------------------------------------------ replyToMessage

replyFrame == <<inputVars, sideVars, boxVars, gmVars, resolverVars, rBody, rQuote, toolVars,
                listVars>>

Return(value) ==
    /\ rOutcome' = "returned"
    /\ rResult' = value
    /\ rPc' = "done"

ReplyNotFoundThrows ==
    /\ rPc = "awaitHeaders"
    /\ gmOutcome = "null"
    /\ rOutcome' = "thrown"
    /\ rResult' = None
    /\ rPc' = "done"
    /\ UNCHANGED <<replyFrame, senderCalls, mailOptions, smtp>>

\* if (!originalHeaders)
ReplyNotFound ==
    /\ rPc = "awaitHeaders"
    /\ gmOutcome = "null"
    /\ Return(FailureResult("Original message not found"))
    /\ UNCHANGED <<replyFrame, senderCalls, mailOptions, smtp>>

\* catch (error) of replyToMessage: the awaited getMessageHeaders rejected.
ReplyFetchRejected ==
    /\ rPc = "awaitHeaders"
    /\ gmOutcome = "rejected"
    /\ Return(FailureResult("Failed to send reply: " \o GmErrorMessage))
    /\ UNCHANGED <<replyFrame, senderCalls, mailOptions, smtp>>

\* if (!replyTo || !replyTo.includes('@'))
ReplyNoAddress ==
    /\ rPc = "awaitHeaders"
    /\ gmOutcome = "message"
    /\ ~AddressUsable(ExtractReplyTo(MessageHeaders(original).from))
    /\ Return(FailureResult("Could not determine reply address from original message"))
    /\ UNCHANGED <<replyFrame, senderCalls, mailOptions, smtp>>

ReplySendUnchecked ==
    /\ rPc = "awaitHeaders"
    /\ gmOutcome \in {"message", "null"}
    /\ LET params == [to |-> "", subject |-> "", body |-> rBody,
                      inReplyTo |-> "", references |-> <<>>]
       IN  /\ senderCalls' = Append(senderCalls, params)
           /\ mailOptions' = Append(mailOptions, SendReplyOptions(params))
           /\ smtp' = "pending"
           /\ rPc' = "sendingReply"
           /\ UNCHANGED <<rOutcome, rResult>>
    /\ UNCHANGED replyFrame

\* The reply is composed and handed to smtpService.sendReply, which checks
\* the recipient, builds mailOptions and calls transporter.sendMail.
ReplySend ==
    /\ rPc = "awaitHeaders"
    /\ gmOutcome = "message"
    /\ LET h == MessageHeaders(original)
           replyTo == ExtractReplyTo(h.from)
           params == ReplyParams(replyTo, ReplyBody(rBody, rQuote, h), h)
       IN  /\ AddressUsable(replyTo)
           /\ senderCalls' = Append(senderCalls, params)
           /\ IF params.to = "" \/ ~Includes(params.to, "@")
              THEN /\ Return(FailureResult("Invalid recipient email address"))
                   /\ UNCHANGED <<mailOptions, smtp>>
              ELSE /\ mailOptions' = Append(mailOptions, SendReplyOptions(params))
                   /\ smtp' = "pending"
                   /\ rPc' = "sendingReply"
                   /\ UNCHANGED <<rOutcome, rResult>>
    /\ UNCHANGED replyFrame

\* transporter.sendMail resolved.
SmtpReplyAccepted ==
    /\ rPc = "sendingReply"
    /\ smtp' = "resolved"
    /\ Return(SuccessResult("Reply sent successfully"))
    /\ UNCHANGED <<replyFrame, senderCalls, mailOptions>>

\* transporter.sendMail rejected: catch (error) of sendReply.
SmtpReplyFailed ==
    /\ rPc = "sendingReply"
    /\ smtp' = "rejected"
    /\ Return(FailureResult("Failed to send reply: error"))
    /\ UNCHANGED <<replyFrame, senderCalls, mailOptions>>

\* ------------------------------------------------------------------ sendMessage

\* EmailOperations.sendMessage -> SmtpService.sendMessage up to sendMail.
SendMessage ==
    /\ rPc = "sendStart"
    /\ mailOptions' = Append(mailOptions,
            SendMessageOptions([to |-> "jane@example.com", subject |-> "Meeting",
                                body |-> rBody]))
    /\ smtp' = "pending"
    /\ rPc' = "sendingMessage"
    /\ UNCHANGED <<replyFrame, senderCalls, rOutcome, rResult>>

SmtpMessageAccepted ==
    /\ rPc = "sendingMessage"
    /\ smtp' = "resolved"
    /\ Return(SuccessResult("Email sent successfully"))
    /\ UNCHANGED <<replyFrame, senderCalls, mailOptions>>

SmtpMessageFailed ==
    /\ rPc = "sendingMessage"
    /\ smtp' = "rejected"
    /\ Return(FailureResult("Failed to send email: error"))
    /\ UNCHANGED <<replyFrame, senderCalls, mailOptions>>

\* ------------------------------------------------------------------ reply specification

ReplyInit ==
    /\ tPc = "idle"
    /\ ToolIdle
    /\ ListIdle
    /\ ThreadFresh
    /\ BoxFresh
    /\ MarkIdle
    /\ SearchIdle
    /\ uid = 1
    /\ idText = "1"
    /\ rBody \in ReplyBodies
    /\ senderCalls = <<>>
    /\ mailOptions = <<>>
    /\ smtp = "none"
    /\ rOutcome = "pending"
    /\ rResult = None
    /\ \/ /\ rPc = "awaitHeaders"
          /\ mailbox \in {<<m>> : m \in ReplyMails} \cup {<<>>}
          /\ rQuote \in BOOLEAN
          /\ GmStart
       \/ /\ rPc = "sendStart"
          /\ mailbox = <<>>
          /\ rQuote = FALSE
          /\ gmPc = "idle"
          /\ gmFound = FALSE
          /\ gmParse = "none"
          /\ gmFetchEnd = FALSE
          /\ gmFetchErr = FALSE
          /\ gmConnErr = FALSE
          /\ gmEnded = FALSE
          /\ gmOutcome = "pending"
          /\ gmCause = "none"
          /\ original = None

ReplyNext ==
    \/ GmReady
    \/ GmOpenBoxErr
    \/ GmOpenBoxOk
    \/ GmFetchMessage
    \/ GmParseOk
    \/ GmParseFail
    \/ GmFetchError
    \/ GmFetchEnd
    \/ GmConnError
    \/ ReplyNotFound
    \/ ReplyFetchRejected
    \/ ReplyNoAddress
    \/ ReplySend
    \/ SmtpReplyAccepted
    \/ SmtpReplyFailed
    \/ SendMessage
    \/ SmtpMessageAccepted
    \/ SmtpMessageFailed

ReplySpec == ReplyInit /\ [][ReplyNext]_vars

\* ------------------------------------------------------------------ tool arguments

\* A JSON argument: absent, a string, a number or a boolean. A number is
\* int, or int + 1/2 when half is set (the schemas take any number).
Absent == [kind |-> "absent"]

Str(s) == [kind |-> "string", val |-> s]

\* A string of n characters; the schemas read only its length.
Text(n) == [kind |-> "string", len |-> n]

Num(n) == [kind |-> "number", int |-> n, half |-> FALSE]

NumAndHalf(n) == [kind |-> "number", int |-> n, half |-> TRUE]

Bool(b) == [kind |-> "boolean", val |-> b]

\* String.prototype.length
Length(v) == IF "len" \in DOMAIN v THEN v.len ELSE Len(v.val)

\* v >= k and v <= k for a number argument v and an integer k.
AtLeast(v, k) == v.int >= k

AtMost(v, k) == v.int < k \/ (v.int = k /\ ~v.half)

\* \d
IsDigit(c) == c \in {"0", "1", "2", "3", "4", "5", "6", "7", "8", "9"}

\* /^\d+$/.test(s)
IsNumeric(s) == Len(s) >= 1 /\ \A i \in 1..Len(s) : IsDigit(Ch(s, i))

\* ------------------------------------------------------------------ schemas

\* .max(100000) of ReplyToMessageSchema.body
MaxReplyBody == 100000

\* .max(50) of GetAttachmentSchema.attachmentIndex
MaxAttachmentIndex == 50

\* .max(25 * 1024 * 1024) of GetAttachmentSchema.maxSizeBytes
MaxSizeCap == 25 * 1024 * 1024

\* .default(10 * 1024 * 1024)
DefaultSizeCap == 10 * 1024 * 1024

IdIssuesAnyString(v) ==
    IF v.kind = "absent" THEN <<"Required">>
    ELSE IF v.kind # "string" THEN <<"Expected string">>
    ELSE IF Length(v) < 1 THEN <<"Message ID cannot be empty">> ELSE <<>>

\* z.string().min(1, ...).regex(/^\d+$/, ...): every failing check reports.
IdIssues(v) ==
    IF v.kind = "absent" THEN <<"Required">>
    ELSE IF v.kind # "string" THEN <<"Expected string">>
    ELSE (IF Length(v) < 1 THEN <<"Message ID cannot be empty">> ELSE <<>>)
         \o (IF ~IsNumeric(v.val) THEN <<"Message ID must be numeric">> ELSE <<>>)

BodyIssuesUnbounded(v) ==
    IF v.kind = "absent" THEN <<"Required">>
    ELSE IF v.kind # "string" THEN <<"Expected string">>
    ELSE IF Length(v) < 1 THEN <<"Reply body cannot be empty">> ELSE <<>>

\* z.string().min(1, ...).max(100000, ...)
BodyIssues(v) ==
    IF v.kind = "absent" THEN <<"Required">>
    ELSE IF v.kind # "string" THEN <<"Expected string">>
    ELSE (IF Length(v) < 1 THEN <<"Reply body cannot be empty">> ELSE <<>>)
         \o (IF Length(v) > MaxReplyBody
             THEN <<"Reply body too long (max 100KB)">> ELSE <<>>)

\* z.boolean().optional().default(d)
FlagIssues(v) ==
    IF v.kind \in {"absent", "boolean"} THEN <<>> ELSE <<"Expected boolean">>

FlagValue(v, d) == IF v.kind = "absent" THEN d ELSE v.val

\* z.number().min(lo).max(hi).optional().default(d)
NumberIssues(v, lo, hi) ==
    IF v.kind = "absent" THEN <<>>
    ELSE IF v.kind # "number" THEN <<"Expected number">>
    ELSE (IF ~AtLeast(v, lo) THEN <<"Number too small">> ELSE <<>>)
         \o (IF ~AtMost(v, hi) THEN <<"Number too big">> ELSE <<>>)

NumberValue(v, d) == IF v.kind = "absent" THEN Num(d) ELSE v

\* The outcome of schema.parse: the parsed data, or the issues it throws.
Parsed(issues, data) ==
    IF issues = <<>> THEN [ok |-> TRUE, data |-> data]
    ELSE [ok |-> FALSE, issues |-> issues]

GetMessageSchema(args) ==
    Parsed(IdIssues(args.id), [id |-> args.id.val])

MarkAsReadSchema(args) ==
    Parsed(IdIssues(args.id) \o FlagIssues(args.read),
           [id |-> args.id.val, read |-> FlagValue(args.read, TRUE)])

\* The parsed body is kept as its length.
ReplyToMessageSchema(args) ==
    Parsed(IdIssues(args.id) \o BodyIssues(args.body) \o FlagIssues(args.includeQuote),
           [id |-> args.id.val, body |-> Length(args.body),
            includeQuote |-> FlagValue(args.includeQuote, TRUE)])

GetThreadSchema(args) ==
    Parsed(IdIssues(args.id), [id |-> args.id.val])

GetAttachmentSchemaNoSizeCap(args) ==
    Parsed(IdIssues(args.messageId)
               \o NumberIssues(args.attachmentIndex, 0, MaxAttachmentIndex)
               \o NumberIssues(args.maxSizeBytes, 1, 40 * 1024 * 1024),
           [messageId |-> args.messageId.val,
            attachmentIndex |-> NumberValue(args.attachmentIndex, 0),
            maxSizeBytes |-> NumberValue(args.maxSizeBytes, DefaultSizeCap)])

GetAttachmentSchema(args) ==
    Parsed(IdIssues(args.messageId)
               \o NumberIssues(args.attachmentIndex, 0, MaxAttachmentIndex)
               \o NumberIssues(args.maxSizeBytes, 1, MaxSizeCap),
           [messageId |-> args.messageId.val,
            attachmentIndex |-> NumberValue(args.attachmentIndex, 0),
            maxSizeBytes |-> NumberValue(args.maxSizeBytes, DefaultSizeCap)])

\* The schema the handler applies for a tool name.
SchemaParse(name, args) ==
    IF name = "getMessage" THEN GetMessageSchema(args)
    ELSE IF name = "markAsRead" THEN MarkAsReadSchema(args)
    ELSE IF name = "replyToMessage" THEN ReplyToMessageSchema(args)
    ELSE IF name = "getThread" THEN GetThreadSchema(args)
    ELSE GetAttachmentSchema(args)

\* ------------------------------------------------------------------ tool inputs

\* Longest message id drawn from the small alphabet.
MaxIdLen == 2

IdStrings == Strs({"1", "2", "a", ";"}, MaxIdLen)
                 \cup {"19", "123", "abc", "1; DROP TABLE emails;--", "1\n", " 1", "-1", "1.5"}

IdArgs == {Str(s) : s \in IdStrings} \cup {Absent, Num(1)}

BodyArgs == {Text(n) : n \in {0, 1, MaxReplyBody - 1, MaxReplyBody, MaxReplyBody + 1}}
                \cup {Absent, Num(1)}

FlagArgs == {Absent, Bool(TRUE), Bool(FALSE), Str("true")}

IndexArgs == {Num(n) : n \in {-1, 0, 1, MaxAttachmentIndex, MaxAttachmentIndex + 1, 100}}
                 \cup {Absent, NumAndHalf(0), NumAndHalf(MaxAttachmentIndex), Str("0")}

SizeCapArgs ==
    {Num(n) : n \in {0, 1, DefaultSizeCap, MaxSizeCap, MaxSizeCap + 1, 30 * 1024 * 1024}}
        \cup {Absent, NumAndHalf(0), NumAndHalf(1), NumAndHalf(MaxSizeCap), Str("1")}

AttachmentSizes ==
    {0, 1, 2, DefaultSizeCap, DefaultSizeCap + 1, MaxSizeCap, MaxSizeCap + 1}

\* An attachment as mailparser reports it.
File(size) ==
    [filename |-> "f.bin", contentType |-> "application/pdf", size |-> size,
     content |-> "bytes" \o ToString(size)]

\* A message as getAttachment reads it: only the attachments matter.
WithFiles(files) ==
    [date |-> 1, messageId |-> "<a@x>", inReplyTo |-> NoTok, references |-> <<>>,
     from |-> "jane@example.com", subject |-> "Meeting", text |-> "hi",
     attachments |-> files]

AttachBoxes ==
    {<<WithFiles(<<>>)>>}
        \cup {<<WithFiles(<<File(n)>>)>> : n \in AttachmentSizes}
        \cup {<<WithFiles(<<File(1), File(n)>>)>> : n \in {2, MaxSizeCap + 1}}

\* One argument varies at a time around a plain request.
ToolCalls ==
    {[name |-> n, args |-> [id |-> i]] : n \in {"getMessage", "getThread"}, i \in IdArgs}
        \cup {[name |-> "markAsRead", args |-> [id |-> i, read |-> r]] :
                i \in IdArgs, r \in FlagArgs}
        \cup {[name |-> "replyToMessage",
               args |-> [id |-> Str("1"), body |-> b, includeQuote |-> q]] :
                b \in BodyArgs, q \in FlagArgs}
        \cup {[name |-> "replyToMessage",
               args |-> [id |-> i, body |-> Text(1), includeQuote |-> Absent]] :
                i \in IdArgs}
        \cup {[name |-> "getAttachment",
               args |-> [messageId |-> i, attachmentIndex |-> Absent,
                         maxSizeBytes |-> Absent]] : i \in IdArgs}
        \cup {[name |-> "getAttachment",
               args |-> [messageId |-> Str("1"), attachmentIndex |-> x,
                         maxSizeBytes |-> c]] : x \in IndexArgs, c \in SizeCapArgs}

\* ------------------------------------------------------------------ getAttachment

\* The UID getAttachment fetches, and its message.
GaUid == ToUid(toolParams.data.messageId)

\* attachment.content.toString('base64')
Base64(content) == "base64(" \o content \o ")"

\* A number as a template literal prints it.
NumString(v) == ToString(v.int) \o (IF v.half THEN ".5" ELSE "")

\* `Attachment size (${attachment.size} bytes) exceeds limit (${maxSizeBytes} bytes)`
SizeError(size, cap) ==
    "Attachment size (" \o ToString(size) \o " bytes) exceeds limit ("
        \o NumString(cap) \o " bytes)"

\* The AttachmentContent built from the selected attachment.
AttachmentContent(att) ==
    [filename |-> att.filename, contentType |-> att.contentType,
     size |-> att.size, content |-> Base64(att.content)]

GaSettle(kind, by, value) ==
    IF gaOutcome = "pending"
    THEN gaOutcome' = kind /\ gaCause' = by /\ gaResult' = value
    ELSE UNCHANGED <<gaOutcome, gaCause, gaResult>>

\* Everything a getAttachment handler leaves alone besides its own fields.
toolFrameBase == <<inputVars, sideVars, gmVars, resolverVars, replyVars, listVars, call,
                   toolPc, toolParams, imapOpened>>

toolFrame == <<toolFrameBase, boxVars>>

GaReady ==
    /\ gaPc = "connecting"
    /\ gaPc' = "opening"
    /\ OpenBox("getAttachment", TRUE)
    /\ UNCHANGED <<toolFrameBase, seenFlags, seenAtCall, gaFound, gaParse, gaFetchEnd, gaFetchErr, gaConnErr,
                   gaEnded, gaOutcome, gaCause, gaResult>>

GaOpenBoxErr ==
    /\ gaPc = "opening"
    /\ gaPc' = "closed"
    /\ gaEnded' = TRUE
    /\ GaSettle("rejected", "openBoxError", [error |-> "Failed to open inbox: error"])
    /\ UNCHANGED <<toolFrame, gaFound, gaParse, gaFetchEnd, gaFetchErr, gaConnErr>>

GaOpenBoxOk ==
    /\ gaPc = "opening"
    /\ gaPc' = "fetching"
    /\ UNCHANGED <<toolFrame, gaFound, gaParse, gaFetchEnd, gaFetchErr, gaConnErr,
                   gaEnded, gaOutcome, gaCause, gaResult>>

\* fetch 'message' up to msg 'end': the handler starts simpleParser.
GaFetchMessage ==
    /\ gaPc = "fetching"
    /\ ~gaFound /\ ~gaFetchEnd /\ ~gaFetchErr
    /\ Exists(GaUid)
    /\ gaFound' = TRUE
    /\ gaParse' = "parsing"
    /\ FetchBodies("getAttachment", {GaUid})
    /\ UNCHANGED <<toolFrameBase, opened, seenAtCall, gaPc, gaFetchEnd, gaFetchErr, gaConnErr, gaEnded,
                   gaOutcome, gaCause, gaResult>>

GaParsedIgnoresLimit ==
    /\ gaParse = "parsing"
    /\ gaParse' = "ok"
    /\ gaEnded' = TRUE
    /\ LET atts == mailbox[GaUid].attachments
           ix == toolParams.data.attachmentIndex
       IN  IF Len(atts) = 0 \/ ix.int >= Len(atts) \/ ix.half \/ ix.int < 0
           THEN GaSettle("null", "noAttachment", None)
           ELSE GaSettle("content", "parsed", AttachmentContent(atts[ix.int + 1]))
    /\ UNCHANGED <<toolFrame, gaPc, gaFound, gaFetchEnd, gaFetchErr, gaConnErr>>

\* The awaited simpleParser resolved: the rest of the msg 'end' handler.
\* attachments[i] of a fractional i is undefined, and reading its size throws
\* into the catch.
GaParsed ==
    /\ gaParse = "parsing"
    /\ gaParse' = "ok"
    /\ gaEnded' = TRUE
    /\ LET atts == mailbox[GaUid].attachments
           ix == toolParams.data.attachmentIndex
           cap == toolParams.data.maxSizeBytes
       IN  IF Len(atts) = 0 THEN GaSettle("null", "noAttachments", None)
           ELSE IF ix.int >= Len(atts) THEN GaSettle("null", "noSuchIndex", None)
           ELSE IF ix.half \/ ix.int < 0
                THEN GaSettle("rejected", "parseError",
                              [error |-> "Failed to parse attachment: error"])
           ELSE IF atts[ix.int + 1].size > cap.int
                THEN GaSettle("rejected", "tooLarge",
                              [error |-> SizeError(atts[ix.int + 1].size, cap)])
           ELSE GaSettle("content", "parsed", AttachmentContent(atts[ix.int + 1]))
    /\ UNCHANGED <<toolFrame, gaPc, gaFound, gaFetchEnd, gaFetchErr, gaConnErr>>

\* The awaited simpleParser rejected: catch (error).
GaParseFail ==
    /\ gaParse = "parsing"
    /\ gaParse' = "failed"
    /\ gaEnded' = TRUE
    /\ GaSettle("rejected", "parseError", [error |-> "Failed to parse attachment: error"])
    /\ UNCHANGED <<toolFrame, gaPc, gaFound, gaFetchEnd, gaFetchErr, gaConnErr>>

GaFetchError ==
    /\ gaPc = "fetching"
    /\ ~gaFetchErr /\ ~gaFetchEnd
    /\ gaFetchErr' = TRUE
    /\ gaEnded' = TRUE
    /\ GaSettle("rejected", "fetchError", [error |-> "Fetch error: error"])
    /\ UNCHANGED <<toolFrame, gaPc, gaFound, gaParse, gaFetchEnd, gaConnErr>>

\* fetch 'end': resolve(null) when no 'message' event was seen.
GaFetchEnd ==
    /\ gaPc = "fetching"
    /\ ~gaFetchEnd
    /\ gaFound \/ ~Exists(GaUid) \/ gaFetchErr
    /\ gaFetchEnd' = TRUE
    /\ IF ~gaFound
       THEN gaEnded' = TRUE /\ GaSettle("null", "notFound", None)
       ELSE UNCHANGED <<gaEnded, gaOutcome, gaCause, gaResult>>
    /\ UNCHANGED <<toolFrame, gaPc, gaFound, gaParse, gaFetchErr, gaConnErr>>

\* imap.once('error'): rejects, and no command on this connection completes.
GaConnError ==
    /\ gaPc \in {"connecting", "opening", "fetching"}
    /\ ~gaConnErr
    /\ gaConnErr' = TRUE
    /\ gaPc' = "dead"
    /\ GaSettle("rejected", "connError", [error |-> "IMAP connection error: error"])
    /\ UNCHANGED <<toolFrame, gaFound, gaParse, gaFetchEnd, gaFetchErr, gaEnded>>

\* ------------------------------------------------------------------ tool call

ToolCallConnectsFirst ==
    /\ toolPc = "received"
    /\ LET r == SchemaParse(call.name, call.args)
       IN  /\ toolParams' = r
           /\ imapOpened' = imapOpened + 1
           /\ toolPc' = IF r.ok THEN "running" ELSE "rejected"
           /\ IF r.ok /\ call.name = "getAttachment"
              THEN gaPc' = "connecting" /\ gaOutcome' = "pending"
              ELSE UNCHANGED <<gaPc, gaOutcome>>
    /\ UNCHANGED <<inputVars, sideVars, boxVars, gmVars, resolverVars, replyVars, listVars, call,
                   gaFound, gaParse, gaFetchEnd, gaFetchErr, gaConnErr, gaEnded,
                   gaCause, gaResult>>

\* The CallTool handler up to its first await: schema.parse(args) throws, or
\* the operation is entered and runs to createConnection() and imap.connect().
ToolCall ==
    /\ toolPc = "received"
    /\ LET r == SchemaParse(call.name, call.args)
       IN  /\ toolParams' = r
           /\ IF r.ok
              THEN /\ toolPc' = "running"
                   /\ imapOpened' = imapOpened + 1
                   /\ IF call.name = "getAttachment"
                      THEN gaPc' = "connecting" /\ gaOutcome' = "pending"
                      ELSE UNCHANGED <<gaPc, gaOutcome>>
              ELSE /\ toolPc' = "rejected"
                   /\ UNCHANGED <<imapOpened, gaPc, gaOutcome>>
    /\ UNCHANGED <<inputVars, sideVars, boxVars, gmVars, resolverVars, replyVars, listVars, call,
                   gaFound, gaParse, gaFetchEnd, gaFetchErr, gaConnErr, gaEnded,
                   gaCause, gaResult>>

\* The getAttachment tool handler: what the caller of the tool receives once
\* EmailOperations.getAttachment has settled.
GetAttachmentResponse ==
    IF gaOutcome = "null"
    THEN [success |-> FALSE, message |-> "Attachment not found"]
    ELSE IF gaOutcome = "content"
         THEN [success |-> TRUE, attachment |-> gaResult]
         ELSE [error |-> "Failed to get attachment: " \o gaResult.error]

\* ------------------------------------------------------------------ tool specification

\* getMessage is not running.
GmIdle ==
    /\ gmPc = "idle"
    /\ gmFound = FALSE
    /\ gmParse = "none"
    /\ gmFetchEnd = FALSE
    /\ gmFetchErr = FALSE
    /\ gmConnErr = FALSE
    /\ gmEnded = FALSE
    /\ gmOutcome = "pending"
    /\ gmCause = "none"
    /\ original = None

\* A tool request has arrived.
ToolInit ==
    /\ mailbox \in AttachBoxes
    /\ uid = 1
    /\ idText = "1"
    /\ GmIdle
    /\ tPc = "idle"
    /\ ThreadFresh
    /\ BoxFresh
    /\ MarkIdle
    /\ SearchIdle
    /\ ReplyIdle
    /\ call \in ToolCalls
    /\ toolPc = "received"
    /\ toolParams = None
    /\ imapOpened = 0
    /\ GaIdle
    /\ ListIdle

ToolNext ==
    \/ ToolCall
    \/ GaReady
    \/ GaOpenBoxErr
    \/ GaOpenBoxOk
    \/ GaFetchMessage
    \/ GaParsed
    \/ GaParseFail
    \/ GaFetchError
    \/ GaFetchEnd
    \/ GaConnError

ToolSpec == ToolInit /\ [][ToolNext]_vars

\* ------------------------------------------------------------------ parseHeaders

\* String.prototype.trim()
RECURSIVE TrimStart(_)
TrimStart(s) ==
    IF s # "" /\ IsSpace(Ch(s, 1)) THEN TrimStart(SubSeq(s, 2, Len(s))) ELSE s

RECURSIVE TrimEnd(_)
TrimEnd(s) ==
    IF s # "" /\ IsSpace(Ch(s, Len(s))) THEN TrimEnd(SubSeq(s, 1, Len(s) - 1)) ELSE s

Trim(s) == TrimEnd(TrimStart(s))

UpperCase == "ABCDEFGHIJKLMNOPQRSTUVWXYZ"

LowerCase == "abcdefghijklmnopqrstuvwxyz"

LowerChar(c) ==
    IF \E i \in 1..Len(UpperCase) : Ch(UpperCase, i) = c
    THEN Ch(LowerCase, CHOOSE i \in 1..Len(UpperCase) : Ch(UpperCase, i) = c)
    ELSE c

\* String.prototype.toLowerCase()
RECURSIVE ToLowerCase(_)
ToLowerCase(s) ==
    IF s = "" THEN "" ELSE LowerChar(Ch(s, 1)) \o ToLowerCase(SubSeq(s, 2, Len(s)))

\* headerStr.split(/\r?\n/): a '\r' right before the '\n' belongs to the separator.
SplitHeaderLines(s) ==
    LET parts == SplitLines(s)
    IN  [i \in 1..Len(parts) |->
            IF i < Len(parts) /\ parts[i] # "" /\ Ch(parts[i], Len(parts[i])) = "\r"
            THEN SubSeq(parts[i], 1, Len(parts[i]) - 1)
            ELSE parts[i]]

\* String.prototype.indexOf for a character that occurs, counted from 1.
IndexOf(s, c) == Min({i \in 1..Len(s) : Ch(s, i) = c})

\* const headers: Record<string, string> = {}
NoHeaders == [k \in {} |-> ""]

PutIfAbsent(h, k, v) ==
    [x \in DOMAIN h \cup {k} |-> IF x \in DOMAIN h THEN h[x] ELSE v]

\* headers[k] = v
Put(h, k, v) ==
    [x \in DOMAIN h \cup {k} |-> IF x = k THEN v ELSE h[x]]

\* headers[k] || ''
Get(h, k) == IF k \in DOMAIN h THEN h[k] ELSE ""

\* if (currentKey) headers[currentKey.toLowerCase()] = currentValue
SaveHeader(st) ==
    IF st.currentKey # ""
    THEN Put(st.headers, ToLowerCase(st.currentKey), st.currentValue)
    ELSE st.headers

\* One iteration of the loop over the lines.
HeaderStep(st, line) ==
    IF StartsWith(line, " ") \/ StartsWith(line, "\t")
    THEN [st EXCEPT !.currentValue = @ \o " " \o Trim(line)]
    ELSE IF Includes(line, ":")
         THEN [headers |-> SaveHeader(st),
               currentKey |-> Trim(SubSeq(line, 1, IndexOf(line, ":") - 1)),
               currentValue |-> Trim(SubSeq(line, IndexOf(line, ":") + 1, Len(line)))]
         ELSE st

RECURSIVE HeaderLoop(_, _)
HeaderLoop(st, lines) ==
    IF lines = <<>> THEN st ELSE HeaderLoop(HeaderStep(st, Head(lines)), Tail(lines))

\* parseHeaders(headerStr)
ParseHeaders(headerStr) ==
    SaveHeader(HeaderLoop([headers |-> NoHeaders, currentKey |-> "", currentValue |-> ""],
                          SplitHeaderLines(headerStr)))

\* ------------------------------------------------------------------ listMessages inputs

\* Most lines of a generated header block.
MaxHeaderLines == 3

HeaderLines ==
    {"Subject: a", "SUBJECT:b ", " d", "\te:f", "From: j@x", "junk", ":v"}

\* Every sequence of at most n lines.
RECURSIVE LineSeqs(_)
LineSeqs(n) ==
    IF n = 0 THEN {<<>>}
    ELSE LET shorter == LineSeqs(n - 1)
         IN  shorter \cup {Append(ls, l) : ls \in shorter, l \in HeaderLines}

\* The blocks as the server sends them: lines ended by LF or by CRLF.
HeaderBlocks ==
    {JoinWith(ls, sep) : ls \in LineSeqs(MaxHeaderLines) \ {<<>>}, sep \in {"\n", "\r\n"}}
        \cup {"Subject: a\r\n b\r\nFrom: j@x\r\n\r\n"}

PlainHeader == "Subject: Meeting\r\nFrom: jane@example.com\r\nMessage-ID: <a@x>\r\n\r\n"

\* JSON.stringify(attrs.struct): no structure, a text part only, an attachment
\* part with the disposition as an object, and one with it as an array.
Structs ==
    {"",
     "[{\"type\":\"text\",\"disposition\":null}]",
     "[{\"type\":\"text\"},[{\"type\":\"application\",\"disposition\":{\"type\":\"attachment\"}}]]",
     "[{\"type\":\"text\"},[{\"type\":\"application\",\"disposition\":[\"attachment\",{}]}]]"}

\* A message as listMessages reads it: attributes and the header block.
Raw(u, date, header, struct) ==
    [uid |-> u, date |-> date, header |-> header, struct |-> struct]

ListBoxes ==
    {<<Raw(1, 1, h, "")>> : h \in HeaderBlocks}
        \cup {<<Raw(1, 1, PlainHeader, st)>> : st \in Structs}
        \cup {<<>>,
              <<Raw(1, 2, PlainHeader, ""), Raw(2, 1, PlainHeader, "")>>,
              <<Raw(1, 1, PlainHeader, ""), Raw(2, 1, PlainHeader, ""),
                Raw(3, 2, PlainHeader, "")>>}

ListCounts == {1, 2, 10}

\* ------------------------------------------------------------------ listMessages

\* attrs.struct && JSON.stringify(attrs.struct).includes('"disposition":["attachment"')
HasAttachmentsFlag(struct) ==
    struct # "" /\ Contains(struct, "\"disposition\":[\"attachment\"")

\* x || d for strings
OrElse(x, d) == IF x # "" THEN x ELSE d

\* The EmailMessage listMessages builds: it has no attachments field.
ListedMessage(raw) ==
    LET headers == ParseHeaders(raw.header)
    IN  [id |-> ToString(raw.uid), threadId |-> ToString(raw.uid),
         subject |-> OrElse(Get(headers, "subject"), "(No Subject)"),
         from |-> Get(headers, "from"),
         date |-> raw.date,
         snippet |-> OrElse(Get(headers, "subject"), "(No Subject)") \o " - "
                        \o OrElse(Get(headers, "from"), "Unknown sender"),
         isRead |-> raw.uid \in seenFlags,
         hasAttachments |-> HasAttachmentsFlag(raw.struct),
         messageId |-> Get(headers, "message-id"),
         inReplyTo |-> Get(headers, "in-reply-to")]

\* x goes behind every element that does not compare greater: stable.
RECURSIVE InsertNewestFirst(_, _)
InsertNewestFirst(x, s) ==
    IF s = <<>> THEN <<x>>
    ELSE IF x.date - Head(s).date <= 0 THEN <<Head(s)>> \o InsertNewestFirst(x, Tail(s))
         ELSE <<x>> \o s

SortOldestFirst(s) == SortByDate(s)

\* messages.sort((a, b) => time(b.date) - time(a.date)): descending, stable.
RECURSIVE SortNewestFirst(_)
SortNewestFirst(s) ==
    IF s = <<>> THEN <<>>
    ELSE InsertNewestFirst(s[Len(s)], SortNewestFirst(SubSeq(s, 1, Len(s) - 1)))

LsSettle(kind, by, value) ==
    IF lsOutcome = "pending"
    THEN lsOutcome' = kind /\ lsCause' = by /\ lsResult' = value
    ELSE UNCHANGED <<lsOutcome, lsCause, lsResult>>

\* Everything a listMessages handler leaves alone besides its own fields.
listFrameBase == <<inputVars, sideVars, gmVars, resolverVars, replyVars, toolVars, lsCount>>

listFrame == <<listFrameBase, boxVars>>

LsReady ==
    /\ lsPc = "connecting"
    /\ lsPc' = "opening"
    /\ OpenBox("listMessages", TRUE)
    /\ UNCHANGED <<listFrameBase, seenFlags, seenAtCall, lsRange, lsSeen, lsMessages, lsFetchErr, lsConnErr,
                   lsEnded, lsOutcome, lsCause, lsResult>>

LsOpenBoxErr ==
    /\ lsPc = "opening"
    /\ lsPc' = "closed"
    /\ lsEnded' = TRUE
    /\ LsSettle("rejected", "openBoxError", [error |-> "Failed to open inbox: error"])
    /\ UNCHANGED <<listFrame, lsRange, lsSeen, lsMessages, lsFetchErr, lsConnErr>>

\* openBox succeeded: an empty mailbox resolves [], otherwise the range
\* max(1, total - count + 1)..total is fetched.
LsOpenBoxOk ==
    /\ lsPc = "opening"
    /\ LET total == Len(mailbox)
           start == Max({1, total - lsCount + 1})
       IN  IF total = 0
           THEN /\ lsPc' = "closed"
                /\ lsEnded' = TRUE
                /\ LsSettle("resolved", "empty", <<>>)
                /\ UNCHANGED lsRange
           ELSE /\ lsPc' = "fetching"
                /\ lsRange' = [i \in 1..(total - start + 1) |-> start + i - 1]
                /\ UNCHANGED <<lsEnded, lsOutcome, lsCause, lsResult>>
    /\ UNCHANGED <<listFrame, lsSeen, lsMessages, lsFetchErr, lsConnErr>>

\* fetch 'message' up to msg 'end' for one sequence number of the range: the
\* header block is parsed and the message pushed.
LsMessage ==
    /\ lsPc = "fetching"
    /\ ~lsFetchErr
    /\ lsOutcome = "pending"
    /\ \E i \in 1..Len(lsRange) :
          /\ lsRange[i] \notin lsSeen
          /\ lsSeen' = lsSeen \cup {lsRange[i]}
          /\ lsMessages' = Append(lsMessages, ListedMessage(mailbox[lsRange[i]]))
          /\ FetchBodies("listMessages", {lsRange[i]})
    /\ UNCHANGED <<listFrameBase, opened, seenAtCall, lsPc, lsRange, lsFetchErr, lsConnErr, lsEnded,
                   lsOutcome, lsCause, lsResult>>

LsFetchError ==
    /\ lsPc = "fetching"
    /\ ~lsFetchErr
    /\ lsOutcome = "pending"
    /\ lsFetchErr' = TRUE
    /\ lsEnded' = TRUE
    /\ LsSettle("rejected", "fetchError", [error |-> "Fetch error: error"])
    /\ UNCHANGED <<listFrame, lsPc, lsRange, lsSeen, lsMessages, lsConnErr>>

\* fetch 'end': every message of the range was emitted (or the fetch failed).
LsFetchEnd ==
    /\ lsPc = "fetching"
    /\ lsFetchErr \/ \A i \in 1..Len(lsRange) : lsRange[i] \in lsSeen
    /\ lsPc' = "closed"
    /\ lsEnded' = TRUE
    /\ lsMessages' = SortNewestFirst(lsMessages)
    /\ LsSettle("resolved", "fetchEnd", lsMessages')
    /\ UNCHANGED <<listFrame, lsRange, lsSeen, lsFetchErr, lsConnErr>>

\* imap.once('error'): rejects, and no command on this connection completes.
LsConnError ==
    /\ lsPc \in {"connecting", "opening", "fetching"}
    /\ ~lsConnErr
    /\ lsConnErr' = TRUE
    /\ lsPc' = "dead"
    /\ LsSettle("rejected", "connError", [error |-> "IMAP connection error: error"])
    /\ UNCHANGED <<listFrame, lsRange, lsSeen, lsMessages, lsFetchErr, lsEnded>>

\* ------------------------------------------------------------------ listMessages specification

\* listMessages(count) was called: createConnection() and imap.connect().
ListInit ==
    /\ \/ mailbox \in ListBoxes /\ lsCount = 10
       \/ mailbox \in {b \in ListBoxes : Len(b) # 1} /\ lsCount \in ListCounts
    /\ uid = 1
    /\ idText = "1"
    /\ GmIdle
    /\ tPc = "idle"
    /\ ThreadFresh
    /\ BoxFresh
    /\ MarkIdle
    /\ SearchIdle
    /\ ReplyIdle
    /\ ToolIdle
    /\ lsPc = "connecting"
    /\ lsRange = <<>>
    /\ lsSeen = {}
    /\ lsMessages = <<>>
    /\ lsFetchErr = FALSE
    /\ lsConnErr = FALSE
    /\ lsEnded = FALSE
    /\ lsOutcome = "pending"
    /\ lsCause = "none"
    /\ lsResult = None

ListNext ==
    \/ LsReady
    \/ LsOpenBoxErr
    \/ LsOpenBoxOk
    \/ LsMessage
    \/ LsFetchError
    \/ LsFetchEnd
    \/ LsConnError

ListSpec == ListInit /\ [][ListNext]_vars

\* ------------------------------------------------------------------ markAsRead

MkSettle(kind, value) ==
    IF mkOutcome = "pending"
    THEN mkOutcome' = kind /\ mkResult' = value
    ELSE UNCHANGED <<mkOutcome, mkResult>>

\* Everything a markAsRead handler leaves alone besides its own fields.
markFrame == <<inputVars, searchMsgVars, gmVars, resolverVars, replyVars, toolVars,
               listVars, seenAtCall, mkRead>>

\* What the flag command does on the server: addFlags or delFlags of \Seen
\* on the message with that UID, if there is one.
Flagged(flags) ==
    IF mkRead THEN flags \cup ({uid} \cap (1..Len(mailbox))) ELSE flags \ {uid}

\* `mark as read` or `mark as unread`
MarkVerb == IF mkRead THEN "mark as read" ELSE "mark as unread"

\* `marked as read` or `marked as unread`
MarkedVerb == IF mkRead THEN "marked as read" ELSE "marked as unread"

\* 'ready': imap.openBox('INBOX', false, ...)
MkReady ==
    /\ mkPc = "connecting"
    /\ mkPc' = "opening"
    /\ OpenBox("markAsRead", FALSE)
    /\ UNCHANGED <<markFrame, seenFlags, mkConnErr, mkEnded, mkOutcome, mkResult>>

MkOpenBoxErr ==
    /\ mkPc = "opening"
    /\ mkPc' = "closed"
    /\ mkEnded' = TRUE
    /\ MkSettle("rejected", [error |-> "Failed to open inbox: error"])
    /\ UNCHANGED <<markFrame, opened, seenFlags, mkConnErr>>

\* openBox succeeded: imap[flagOperation]([uid], ['\\Seen'], ...) is issued.
MkOpenBoxOk ==
    /\ mkPc = "opening"
    /\ mkPc' = "flagging"
    /\ UNCHANGED <<markFrame, opened, seenFlags, mkConnErr, mkEnded, mkOutcome, mkResult>>

\* The flag command succeeded, which takes a mailbox opened read-write.
MkFlagsOk ==
    /\ mkPc = "flagging"
    /\ ~ReadOnlyBox("markAsRead")
    /\ mkPc' = "closed"
    /\ seenFlags' = Flagged(seenFlags)
    /\ mkEnded' = TRUE
    /\ MkSettle("resolved",
                [success |-> TRUE, message |-> "Message " \o MarkedVerb \o " successfully"])
    /\ UNCHANGED <<markFrame, opened, mkConnErr>>

\* The flag command failed.
MkFlagsErr ==
    /\ mkPc = "flagging"
    /\ mkPc' = "closed"
    /\ mkEnded' = TRUE
    /\ MkSettle("resolved",
                [success |-> FALSE, message |-> "Failed to " \o MarkVerb \o ": error"])
    /\ UNCHANGED <<markFrame, opened, seenFlags, mkConnErr>>

\* imap.once('error'): rejects; a flag command already sent may or may not
\* have been carried out by the server.
MkConnError ==
    /\ mkPc \in {"connecting", "opening", "flagging"}
    /\ ~mkConnErr
    /\ mkConnErr' = TRUE
    /\ mkPc' = "dead"
    /\ IF mkPc = "flagging" /\ ~ReadOnlyBox("markAsRead")
       THEN seenFlags' \in {seenFlags, Flagged(seenFlags)}
       ELSE seenFlags' = seenFlags
    /\ MkSettle("rejected", [error |-> "IMAP connection error: error"])
    /\ UNCHANGED <<markFrame, opened, mkEnded>>

\* ------------------------------------------------------------------ searchMessages

\* results.slice(-50)
SearchLimit == 50

SearchQuery == "invoice"

\* xs.slice(-n)
Last(xs, n) == SubSeq(xs, Max({1, Len(xs) - n + 1}), Len(xs))

\* The EmailMessage searchMessages builds from the header fields.
SearchedMessage(raw) ==
    LET headers == ParseHeaders(raw.header)
    IN  [id |-> ToString(raw.uid), threadId |-> ToString(raw.uid),
         subject |-> OrElse(Get(headers, "subject"), "(No Subject)"),
         from |-> Get(headers, "from"),
         date |-> raw.date,
         snippet |-> OrElse(Get(headers, "subject"), "(No Subject)") \o " - "
                        \o OrElse(Get(headers, "from"), "Unknown sender"),
         isRead |-> raw.uid \in seenFlags]

SmSettle(kind, by, value) ==
    IF smOutcome = "pending"
    THEN smOutcome' = kind /\ smCause' = by /\ smResult' = value
    ELSE UNCHANGED <<smOutcome, smCause, smResult>>

\* Everything a searchMessages handler leaves alone besides its own fields.
searchFrame == <<inputVars, markVars, gmVars, resolverVars, replyVars, toolVars,
                 listVars, seenAtCall, smHits>>

\* 'ready': imap.openBox('INBOX', true, ...)
SmReady ==
    /\ smPc = "connecting"
    /\ smPc' = "opening"
    /\ OpenBox("searchMessages", TRUE)
    /\ UNCHANGED <<searchFrame, seenFlags, smSeen, smMessages, smFetchErr, smConnErr,
                   smEnded, smOutcome, smCause, smResult>>

SmOpenBoxErr ==
    /\ smPc = "opening"
    /\ smPc' = "closed"
    /\ smEnded' = TRUE
    /\ SmSettle("rejected", "openBoxError", [error |-> "Failed to open inbox: error"])
    /\ UNCHANGED <<searchFrame, opened, seenFlags, smSeen, smMessages, smFetchErr,
                   smConnErr>>

\* openBox succeeded: imap.search(['ALL', ['TEXT', query]], ...) is issued.
SmOpenBoxOk ==
    /\ smPc = "opening"
    /\ smPc' = "searching"
    /\ UNCHANGED <<searchFrame, opened, seenFlags, smSeen, smMessages, smFetchErr,
                   smConnErr, smEnded, smOutcome, smCause, smResult>>

SmSearchErr ==
    /\ smPc = "searching"
    /\ smPc' = "closed"
    /\ smEnded' = TRUE
    /\ SmSettle("rejected", "searchError", [error |-> "Search error: error"])
    /\ UNCHANGED <<searchFrame, opened, seenFlags, smSeen, smMessages, smFetchErr,
                   smConnErr>>

\* The search reported its results: none resolves the empty SearchResult,
\* otherwise the most recent 50 are fetched.
SmSearchOk ==
    /\ smPc = "searching"
    /\ IF smHits = <<>>
       THEN /\ smPc' = "closed"
            /\ smEnded' = TRUE
            /\ SmSettle("resolved", "empty",
                        [messages |-> <<>>, totalCount |-> 0, query |-> SearchQuery])
       ELSE /\ smPc' = "fetching"
            /\ UNCHANGED <<smEnded, smOutcome, smCause, smResult>>
    /\ UNCHANGED <<searchFrame, opened, seenFlags, smSeen, smMessages, smFetchErr,
                   smConnErr>>

\* fetch 'message' up to msg 'end' for one of the fetched UIDs.
SmMessage ==
    /\ smPc = "fetching"
    /\ ~smFetchErr
    /\ smOutcome = "pending"
    /\ \E i \in 1..Len(Last(smHits, SearchLimit)) :
          LET u == Last(smHits, SearchLimit)[i]
          IN  /\ u \notin smSeen
              /\ smSeen' = smSeen \cup {u}
              /\ smMessages' = Append(smMessages, SearchedMessage(mailbox[u]))
              /\ FetchBodies("searchMessages", {u})
    /\ UNCHANGED <<searchFrame, opened, smPc, smFetchErr, smConnErr, smEnded,
                   smOutcome, smCause, smResult>>

SmFetchError ==
    /\ smPc = "fetching"
    /\ ~smFetchErr
    /\ smOutcome = "pending"
    /\ smFetchErr' = TRUE
    /\ smEnded' = TRUE
    /\ SmSettle("rejected", "fetchError", [error |-> "Fetch error: error"])
    /\ UNCHANGED <<searchFrame, opened, seenFlags, smPc, smSeen, smMessages, smConnErr>>

\* fetch 'end': every fetched message was emitted (or the fetch failed).
SmFetchEnd ==
    /\ smPc = "fetching"
    /\ smFetchErr \/ \A i \in 1..Len(Last(smHits, SearchLimit)) :
                        Last(smHits, SearchLimit)[i] \in smSeen
    /\ smPc' = "closed"
    /\ smEnded' = TRUE
    /\ smMessages' = SortNewestFirst(smMessages)
    /\ SmSettle("resolved", "fetchEnd",
                [messages |-> smMessages', totalCount |-> Len(smHits),
                 query |-> SearchQuery])
    /\ UNCHANGED <<searchFrame, opened, seenFlags, smSeen, smFetchErr, smConnErr>>

\* imap.once('error'): rejects, and no command on this connection completes.
SmConnError ==
    /\ smPc \in {"connecting", "opening", "searching", "fetching"}
    /\ ~smConnErr
    /\ smConnErr' = TRUE
    /\ smPc' = "dead"
    /\ SmSettle("rejected", "connError", [error |-> "IMAP connection error: error"])
    /\ UNCHANGED <<searchFrame, opened, seenFlags, smSeen, smMessages, smFetchErr,
                   smEnded>>

\* ------------------------------------------------------------------ mailbox specification

\* Three messages as the header fetches read them; two share a timestamp.
RawBox ==
    <<Raw(1, 1, PlainHeader, ""), Raw(2, 1, PlainHeader, ""), Raw(3, 2, PlainHeader, "")>>

\* The messages that are read when the operation is called: none, the first, all.
SeenChoices(n) == {{}, {1} \cap (1..n), 1..n}

\* One operation of the service was called on a mailbox some of whose
\* messages are read.
BoxInit ==
    /\ opened = {}
    /\ ThreadFresh
    /\ ReplyIdle
    /\ \/ \* getThread, and the getMessage every fetch starts with
          /\ \/ mailbox = ConversationBox /\ uid \in {2, 4}
             \/ mailbox = OrphanBox /\ uid = 1
          /\ idText = ToString(uid)
          /\ GmStart
          /\ tPc = "awaitTarget"
          /\ ToolIdle /\ ListIdle /\ MarkIdle /\ SearchIdle
       \/ \* the getAttachment tool
          /\ mailbox \in {<<WithFiles(<<>>)>>, <<WithFiles(<<File(1)>>)>>}
          /\ uid = 1 /\ idText = "1"
          /\ call \in {[name |-> "getAttachment",
                        args |-> [messageId |-> Str(i), attachmentIndex |-> Absent,
                                  maxSizeBytes |-> Absent]] : i \in {"1", "2", "a"}}
          /\ toolPc = "received"
          /\ toolParams = None
          /\ imapOpened = 0
          /\ GaIdle
          /\ GmIdle /\ tPc = "idle" /\ ListIdle /\ MarkIdle /\ SearchIdle
       \/ \* listMessages
          /\ mailbox = RawBox
          /\ uid = 1 /\ idText = "1"
          /\ lsCount = 2
          /\ lsPc = "connecting"
          /\ lsRange = <<>>
          /\ lsSeen = {}
          /\ lsMessages = <<>>
          /\ lsFetchErr = FALSE
          /\ lsConnErr = FALSE
          /\ lsEnded = FALSE
          /\ lsOutcome = "pending"
          /\ lsCause = "none"
          /\ lsResult = None
          /\ GmIdle /\ tPc = "idle" /\ ToolIdle /\ MarkIdle /\ SearchIdle
       \/ \* markAsRead
          /\ mailbox = RawBox
          /\ uid \in 1..(Len(mailbox) + 1)
          /\ idText = ToString(uid)
          /\ mkRead \in BOOLEAN
          /\ mkPc = "connecting"
          /\ mkConnErr = FALSE
          /\ mkEnded = FALSE
          /\ mkOutcome = "pending"
          /\ mkResult = None
          /\ GmIdle /\ tPc = "idle" /\ ToolIdle /\ ListIdle /\ SearchIdle
       \/ \* searchMessages
          /\ mailbox = RawBox
          /\ uid = 1 /\ idText = "1"
          /\ smHits \in {<<>>, <<2>>, <<1, 3>>, <<1, 2, 3>>}
          /\ smPc = "connecting"
          /\ smSeen = {}
          /\ smMessages = <<>>
          /\ smFetchErr = FALSE
          /\ smConnErr = FALSE
          /\ smEnded = FALSE
          /\ smOutcome = "pending"
          /\ smCause = "none"
          /\ smResult = None
          /\ GmIdle /\ tPc = "idle" /\ ToolIdle /\ ListIdle /\ MarkIdle
    /\ seenFlags \in SeenChoices(Len(mailbox))
    /\ seenAtCall = seenFlags

BoxNext ==
    \/ GmReady
    \/ GmOpenBoxErr
    \/ GmOpenBoxOk
    \/ GmFetchMessage
    \/ GmParseOk
    \/ GmParseFail
    \/ GmFetchError
    \/ GmFetchEnd
    \/ GmConnError
    \/ ThreadCatch
    \/ ThreadNotFound
    \/ ThreadNoAnchors
    \/ ThreadConnect
    \/ TReady
    \/ TOpenBoxErr
    \/ TOpenBoxOk
    \/ \E i \in 1..Len(searchSt) : TSearchOk(i)
    \/ \E i \in 1..Len(searchSt) : TSearchErr(i)
    \/ TAfterSearches
    \/ \E i \in 1..Len(parseSt) : TFetchMessage(i)
    \/ \E i \in 1..Len(parseSt) : TParseOk(i)
    \/ \E i \in 1..Len(parseSt) : TParseFail(i)
    \/ TFetchError
    \/ TFetchEnd
    \/ TConnError
    \/ ToolCall
    \/ GaReady
    \/ GaOpenBoxErr
    \/ GaOpenBoxOk
    \/ GaFetchMessage
    \/ GaParsed
    \/ GaParseFail
    \/ GaFetchError
    \/ GaFetchEnd
    \/ GaConnError
    \/ LsReady
    \/ LsOpenBoxErr
    \/ LsOpenBoxOk
    \/ LsMessage
    \/ LsFetchError
    \/ LsFetchEnd
    \/ LsConnError
    \/ MkReady
    \/ MkOpenBoxErr
    \/ MkOpenBoxOk
    \/ MkFlagsOk
    \/ MkFlagsErr
    \/ MkConnError
    \/ SmReady
    \/ SmOpenBoxErr
    \/ SmOpenBoxOk
    \/ SmSearchErr
    \/ SmSearchOk
    \/ SmMessage
    \/ SmFetchError
    \/ SmFetchEnd
    \/ SmConnError

BoxSpec == BoxInit /\ [][BoxNext]_vars

\* ------------------------------------------------------------------ properties

\* The UIDs of the messages of a result.
Ids(ms) == {ToUid(ms[i].id) : i \in 1..Len(ms)}

TargetFetched == gmOutcome = "message"

Settled == outcome # "pending"

\* The position at which an id was pushed to the messages array.
Pos(id) == CHOOSE k \in 1..Len(collected) : collected[k] = ToUid(id)

SearchesReturned ==
    /\ Len(searchSt) > 0
    /\ AllSearchesDone

ParsedOk == {uniqueUids[i] : i \in {j \in 1..Len(parseSt) : parseSt[j] = "ok"}}

\* C1: a successfully fetched target without Message-ID, In-Reply-To and
\* References gives exactly the singleton result: messages = [target],
\* threadId = id, messageCount = 1.
C1_SingletonWithoutHeaders ==
    (/\ TargetFetched
     /\ original.messageId = NoTok
     /\ original.inReplyTo = NoTok
     /\ original.references = <<>>
     /\ Settled)
    => /\ outcome = "resolved"
       /\ original.id = ToString(uid)
       /\ result = [messages |-> <<original>>, threadId |-> idText, messageCount |-> 1]

C1_Witness ==
    /\ TargetFetched
    /\ AnchorTokens(original) = <<>>
    /\ cause = "noAnchors"
    /\ outcome = "resolved"

\* C2: when the target has anchor tokens and every anchor-token search
\* returned no message id, the result is the singleton [target] with
\* messageCount 1, never an empty result.
C2_SingletonWhenSearchesEmpty ==
    (/\ TargetFetched
     /\ anchors # <<>>
     /\ SearchesReturned
     /\ \A i \in 1..Len(searchRes) : searchRes[i] = <<>>
     /\ Settled)
    => /\ outcome = "resolved"
       /\ result = [messages |-> <<original>>, threadId |-> idText, messageCount |-> 1]

C2_Witness ==
    /\ TargetFetched
    /\ anchors # <<>>
    /\ SearchesReturned
    /\ \A i \in 1..Len(searchSt) : searchSt[i] = "ok" /\ searchRes[i] = <<>>
    /\ cause = "noUids"
    /\ outcome = "resolved"

\* C3: once the target was fetched getThread never rejects, and a failed
\* openBox, a connection error and a fetch error of the search phase each
\* settle it with the singleton [target], threadId = id, messageCount = 1.
C3_SecondaryErrorsDegrade ==
    TargetFetched =>
        /\ outcome # "rejected"
        /\ (cause \in {"openBoxError", "fetchError", "connError"} \/ tFetchErr)
            => /\ outcome = "resolved"
               /\ result = [messages |-> <<original>>, threadId |-> idText,
                            messageCount |-> 1]

C3_Witness ==
    /\ TargetFetched
    /\ tFetchErr
    /\ cause = "fetchError"
    /\ \E i \in 1..Len(parseSt) : parseSt[i] = "ok"
    /\ outcome = "resolved"

\* C4: the delivered ThreadResult contains every message of the search union
\* whose parse succeeded, and messageCount is the number of successfully
\* parsed messages, whatever the order of parse completions and fetch 'end'.
C4_AllParsedDelivered ==
    (/\ cause = "fetchEnd"
     /\ \A i \in 1..Len(parseSt) : parseSt[i] \in {"ok", "failed"})
    => /\ Ids(result.messages) = ParsedOk
       /\ result.messageCount = Cardinality(ParsedOk)

C6_NoDuplicateIds ==
    outcome = "resolved" =>
        \A i, j \in 1..Len(result.messages) :
            i # j => result.messages[i].id # result.messages[j].id

C6_Witness ==
    /\ cause = "fetchEnd"
    /\ \E u \in Ids(result.messages) :
          Cardinality({i \in 1..Len(searchRes) :
                         \E k \in 1..Len(searchRes[i]) : searchRes[i][k] = u}) >= 2

\* C7: when the initial fetch ends without delivering the target, getThread
\* resolves with zero messages, threadId = id and messageCount = 0.
C7_NotFoundIsEmptyResult ==
    (gmOutcome = "null" /\ Settled)
    => /\ outcome = "resolved"
       /\ result = [messages |-> <<>>, threadId |-> idText, messageCount |-> 0]

C7_Witness ==
    /\ gmOutcome = "null"
    /\ ~Exists(uid)
    /\ cause = "notFound"
    /\ outcome = "resolved"

\* C8: a connection error or a failure to open the mailbox during the
\* initial fetch of the target reaches the caller as an error, not as a
\* ThreadResult.
C8_ConnectionErrorSurfaces ==
    (gmCause \in {"connError", "openBoxError"} /\ Settled)
    => /\ outcome = "rejected"
       /\ result = None

C8_Witness ==
    /\ gmCause = "connError"
    /\ outcome = "rejected"

\* C9: when the initial fetch reports an error or the fetched target cannot
\* be parsed, getThread resolves with the zero-message ThreadResult
\* (threadId = id, messageCount = 0) rather than failing.
C9_FetchFailureIsEmptyResult ==
    (gmCause \in {"fetchError", "parseError"} /\ Settled)
    => /\ outcome = "resolved"
       /\ result = [messages |-> <<>>, threadId |-> idText, messageCount |-> 0]

\* C10: whenever the target was fetched, the returned ThreadResult contains
\* a message whose id is the input id, so it is never empty.  Stated for the
\* results at whose delivery no parse of the batch fetch was still pending,
\* so that a completion arriving after fetch 'end' is not what decides it.
C10_ResultContainsTarget ==
    (/\ TargetFetched
     /\ outcome = "resolved"
     /\ cause = "fetchEnd" =>
           /\ \A i \in 1..Len(parseSt) : parseSt[i] \in {"ok", "failed"}
           /\ Ids(result.messages) = ParsedOk)
    => \E i \in 1..Len(result.messages) : result.messages[i].id = ToString(uid)

\* The target's threading tokens, read off the mailbox: its Message-ID, its
\* In-Reply-To and every entry of its References, each only if present.
TargetTokens ==
    ({mailbox[uid].messageId, mailbox[uid].inReplyTo} \ {NoTok})
        \cup {mailbox[uid].references[i] : i \in 1..Len(mailbox[uid].references)}

\* The mailbox messages whose Message-ID is one of the tokens or whose
\* References contains one.
Conversation ==
    {u \in 1..Len(mailbox) :
        \E tok \in TargetTokens :
            \/ mailbox[u].messageId = tok
            \/ \E i \in 1..Len(mailbox[u].references) : mailbox[u].references[i] = tok}

NoSearchOrParseFailed ==
    /\ \A i \in 1..Len(searchSt) : searchSt[i] = "ok"
    /\ \A i \in 1..Len(parseSt) : parseSt[i] = "ok"

\* C11: when every search and every parse succeeded, the ids of the result
\* of the batch fetch are exactly the mailbox messages whose Message-ID is
\* an anchor token or whose References contains one, the anchor tokens being
\* the target's Message-ID, In-Reply-To and References entries.
C11_ResultIsConversation ==
    (cause = "fetchEnd" /\ NoSearchOrParseFailed)
    => /\ {anchors[i] : i \in 1..Len(anchors)} = TargetTokens
       /\ Ids(result.messages) = Conversation

\* The same statement for the results at whose delivery no parse was pending.
C11_ResultIsConversationWhenParsedInTime ==
    (cause = "fetchEnd" /\ NoSearchOrParseFailed /\ Ids(result.messages) = ParsedOk)
    => /\ {anchors[i] : i \in 1..Len(anchors)} = TargetTokens
       /\ Ids(result.messages) = Conversation

\* ------------------------------------------------------------------ reply properties

\* A replyToMessage run (not sendMessage) whose target was fetched.
ReplyTargetFetched == rPc # "idle" /\ gmPc # "idle" /\ gmOutcome = "message"

\* The References expected on a reply to m: m's own list, then m's
\* Message-ID, absent values left out.
ExpectedReferences(m) ==
    SelectSeq(m.references, LAMBDA r : r # "")
        \o (IF m.messageId # "" THEN <<m.messageId>> ELSE <<>>)

\* The pieces of s between occurrences of the character c.
RECURSIVE SplitOn(_, _)
SplitOn(s, c) ==
    IF ~Includes(s, c) THEN <<s>>
    ELSE LET i == Min({k \in 1..Len(s) : Ch(s, k) = c})
         IN  <<SubSeq(s, 1, i - 1)>> \o SplitOn(SubSeq(s, i + 1, Len(s)), c)

\* C12: the References handed to the sender are the original's References
\* followed by its Message-ID with absent values removed, In-Reply-To is the
\* original's Message-ID, and a threading header is left out of the outgoing
\* mail only when its value is absent or the list is empty.
C12_ThreadingHeaders ==
    senderCalls # <<>> =>
        LET m == mailbox[uid]
            p == senderCalls[1]
        IN  /\ p.references = ExpectedReferences(m)
            /\ p.inReplyTo = m.messageId
            /\ \A i \in 1..Len(mailOptions) :
                  LET o == mailOptions[i]
                  IN  /\ ("inReplyTo" \in DOMAIN o) <=> (m.messageId # "")
                      /\ ("inReplyTo" \in DOMAIN o) => o.inReplyTo = m.messageId
                      /\ ("references" \in DOMAIN o) <=> (ExpectedReferences(m) # <<>>)
                      /\ ("references" \in DOMAIN o) =>
                            SplitOn(o.references, " ") = ExpectedReferences(m)

C12_Witness ==
    /\ Len(mailOptions) = 1
    /\ senderCalls # <<>>
    /\ mailbox[uid].references = <<"<b@x>", "<c@x>">>
    /\ mailbox[uid].messageId = "<a@x>"
    /\ mailOptions[1].references = "<b@x> <c@x> <a@x>"
    /\ mailOptions[1].inReplyTo = "<a@x>"
    /\ rOutcome = "returned"
    /\ rResult.success

\* A reply was sent for a message without Message-ID and References: both
\* threading headers are left out.
C12_WitnessOmitted ==
    /\ Len(mailOptions) = 1
    /\ senderCalls # <<>>
    /\ DOMAIN mailOptions[1] = {"from", "to", "subject", "text"}

\* C13: the outgoing subject is the original subject when that starts with
\* exactly "Re:" and "Re: " followed by it otherwise; applying the rule to
\* its own output changes nothing.
C13_ReplySubject ==
    (senderCalls # <<>> /\ mailOptions # <<>>) =>
        LET sj == original.subject
            out == mailOptions[1].subject
        IN  /\ senderCalls[1].subject = sj
            /\ (Len(sj) >= 3 /\ Ch(sj, 1) = "R" /\ Ch(sj, 2) = "e" /\ Ch(sj, 3) = ":")
                  => out = sj
            /\ ~(Len(sj) >= 3 /\ Ch(sj, 1) = "R" /\ Ch(sj, 2) = "e" /\ Ch(sj, 3) = ":")
                  => out = "Re: " \o sj
            /\ ReplySubject(out) = out
            /\ sj = "Meeting" => out = "Re: Meeting"
            /\ sj = "Re: Meeting" => out = "Re: Meeting"

C13_Witness ==
    /\ senderCalls # <<>>
    /\ mailOptions # <<>>
    /\ original.subject = "Re: Meeting"
    /\ mailOptions[1].subject = "Re: Meeting"

C13_WitnessPrefixed ==
    /\ senderCalls # <<>>
    /\ mailOptions # <<>>
    /\ original.subject = "RE:"
    /\ mailOptions[1].subject = "Re: RE:"

EndsWith(s, p) == Len(s) >= Len(p) /\ SubSeq(s, Len(s) - Len(p) + 1, Len(s)) = p

\* C14: the body handed to the sender is the caller's body verbatim when
\* includeQuote is false or the original body is empty; otherwise it is the
\* caller's body, a separator and attribution line, and the original body
\* with every line prefixed by "> ", as many lines in the same order.
C14_ReplyBodyQuote ==
    senderCalls # <<>> =>
        LET b == mailbox[uid].text
            sent == senderCalls[1].body
            lines == SplitLines(b)
            qlen == Len(b) + 2 * Len(lines)
            quoted == SubSeq(sent, Len(sent) - qlen + 1, Len(sent))
            before == SubSeq(sent, 1, Len(sent) - qlen)
        IN  /\ \A i \in 1..Len(mailOptions) : mailOptions[i].text = sent
            /\ (~rQuote \/ b = "") => sent = rBody
            /\ (rQuote /\ b # "") =>
                  /\ Len(sent) > qlen
                  /\ StartsWith(before, rBody \o "\n\n---\nOn ")
                  /\ EndsWith(before, ", " \o mailbox[uid].from \o " wrote:\n")
                  /\ Len(SplitLines(quoted)) = Len(lines)
                  /\ \A i \in 1..Len(lines) :
                        SplitLines(quoted)[i] = "> " \o lines[i]
                  /\ b = "line1\nline2" => quoted = "> line1\n> line2"

C14_Witness ==
    /\ senderCalls # <<>>
    /\ rQuote
    /\ mailbox[uid].text = "line1\nline2"
    /\ EndsWith(senderCalls[1].body, "wrote:\n> line1\n> line2")

C14_WitnessVerbatim ==
    /\ senderCalls # <<>>
    /\ ~rQuote
    /\ mailbox[uid].text # ""
    /\ senderCalls[1].body = rBody

\* A '<', one or more characters other than '>', and a '>' start at i.
PairAt(f, i, n) ==
    /\ n >= 1
    /\ i + n + 1 <= Len(f)
    /\ Ch(f, i) = "<"
    /\ Ch(f, i + n + 1) = ">"
    /\ \A k \in (i + 1)..(i + n) : Ch(f, k) # ">"

HasPair(f) == \E i \in 1..Len(f), n \in 1..Len(f) : PairAt(f, i, n)

\* f[i..e] reads local@domain: no white space, no '<' before the '@' that
\* splits it and no '>' after it, and something on both sides.
TokenAt(f, i, e) ==
    \E k \in (i + 1)..(e - 1) :
        /\ Ch(f, k) = "@"
        /\ \A m \in i..(k - 1) : ~IsSpace(Ch(f, m)) /\ Ch(f, m) # "<"
        /\ \A m \in (k + 1)..e : ~IsSpace(Ch(f, m)) /\ Ch(f, m) # ">"

HasToken(f) == \E i \in 1..Len(f), e \in 1..Len(f) : TokenAt(f, i, e)

\* C15: the recipient of a reply is the text inside the first angle-bracket
\* pair of the original From header when there is one, and otherwise the
\* first bare local@domain token of the header, when there is one.
C15_ReplyRecipient ==
    senderCalls # <<>> =>
        LET f == original.from
            t == senderCalls[1].to
        IN  /\ f = mailbox[uid].from
            /\ HasPair(f) =>
                  \E i \in 1..Len(f) :
                      /\ PairAt(f, i, Len(t))
                      /\ SubSeq(f, i + 1, i + Len(t)) = t
                      /\ \A i2 \in 1..(i - 1), n \in 1..Len(f) : ~PairAt(f, i2, n)
            /\ (~HasPair(f) /\ HasToken(f)) =>
                  \E i \in 1..Len(f) :
                      /\ TokenAt(f, i, i + Len(t) - 1)
                      /\ SubSeq(f, i, i + Len(t) - 1) = t
                      /\ \A i2 \in 1..(i - 1), e \in 1..Len(f) : ~TokenAt(f, i2, e)
                      /\ \A e \in (i + Len(t))..Len(f) : ~TokenAt(f, i, e)
            /\ f = "Jane Doe <jane@example.com>" => t = "jane@example.com"
            /\ f = "jane@example.com" => t = "jane@example.com"

C15_Witness ==
    /\ senderCalls # <<>>
    /\ original.from = "j@work <jane@example.com>"
    /\ senderCalls[1].to = "jane@example.com"

C15_WitnessBare ==
    /\ senderCalls # <<>>
    /\ original.from = "jane@example.com"
    /\ senderCalls[1].to = "jane@example.com"

\* C16: when the From header matches neither pattern, or the extracted value
\* has no '@', replyToMessage returns the failure result saying the reply
\* address could not be determined, and nothing is handed to the sender.
C16_NoAddressIsFailure ==
    (/\ ReplyTargetFetched
     /\ \/ ~HasPair(original.from) /\ ~HasToken(original.from)
        \/ ~Includes(ExtractReplyTo(original.from), "@"))
    => /\ senderCalls = <<>>
       /\ rOutcome = "returned" =>
             rResult = [messageId |-> "", success |-> FALSE,
                        message |-> "Could not determine reply address from original message"]

C18_WitnessNotFound ==
    /\ gmOutcome = "null"
    /\ rOutcome = "returned"
    /\ rResult.message = "Original message not found"

\* C19: a connection-level error while replyToMessage fetches the target
\* reaches the caller as an error, not as a DeliveryResult.
C19_ConnectionErrorPropagates ==
    (rPc # "idle" /\ gmCause = "connError" /\ rOutcome # "pending")
    => rOutcome = "thrown"

\* C20: every result of sendMessage, sendReply and replyToMessage with
\* success false has an empty messageId, and success is true only when the
\* mail transport accepted the message.
C20_FailureHasEmptyId ==
    (rPc # "idle" /\ rOutcome = "returned") =>
        /\ ~rResult.success => rResult.messageId = ""
        /\ rResult.success => smtp = "resolved" /\ Len(mailOptions) = 1

C20_Witness ==
    /\ gmPc = "idle"
    /\ smtp = "rejected"
    /\ rOutcome = "returned"
    /\ ~rResult.success
    /\ rResult.messageId = ""

C20_WitnessAccepted ==
    /\ rOutcome = "returned"
    /\ rResult.success
    /\ smtp = "resolved"

\* ------------------------------------------------------------------ connection properties

\* getThread opened its second connection.
SecondConnectionOpened == anchors # <<>>

\* C22: whenever the promise of an operation has settled (success, not
\* found or error, a connection 'error' included), end() has been called
\* on every connection the operation opened.
C22_ConnectionsClosed ==
    /\ gmOutcome # "pending" => gmEnded
    /\ (outcome # "pending" /\ SecondConnectionOpened) => tEnded

\* The secondary phase of getThread failed: connection, mailbox-open, search
\* or fetch error.
SecondaryFailed ==
    \/ cause \in {"openBoxError", "fetchError", "connError"}
    \/ \E i \in 1..Len(searchSt) : searchSt[i] = "err"

\* No message of the mailbox matches a search of the fan-out: the searches,
\* when they all succeed, find nothing.
NothingToFind ==
    /\ anchors # <<>>
    /\ \A i \in 1..NumSearches : SearchHeader(SearchField(i), SearchToken(i)) = <<>>

\* What the caller receives when every search succeeded and found nothing.
NothingFoundResult == SingletonResult(original, idText)

\* C23: a getThread run whose secondary phase failed gives the caller a
\* result different from the one of the run, on the same mailbox and id, in
\* which the searches succeeded and found nothing.
C23_FailureDistinguishable ==
    (outcome # "pending" /\ SecondaryFailed /\ NothingToFind)
    => ~(outcome = "resolved" /\ result = NothingFoundResult)

\* The run C23 compares with: no failure, nothing found.
C23_NothingFoundRun ==
    (outcome # "pending" /\ anchors # <<>> /\ ~SecondaryFailed /\ NothingToFind)
    => (outcome = "resolved" /\ result = NothingFoundResult)

\* ------------------------------------------------------------------ getMessage tool

\* The getMessage tool handler: what the caller of the tool receives once
\* EmailOperations.getMessage has settled.
GetMessageResponse ==
    IF gmOutcome = "null"
    THEN [success |-> FALSE, message |-> "Message not found"]
    ELSE IF gmOutcome = "message"
         THEN [success |-> TRUE, message |-> original]
         ELSE [error |-> "Failed to get message: " \o GmErrorMessage]

\* No connection, mailbox-open or fetch error was reported to getMessage.
GmNoError == ~gmConnErr /\ ~gmFetchErr /\ gmCause # "openBoxError"

C30_WitnessFound ==
    /\ Exists(uid)
    /\ gmOutcome = "message"
    /\ original.body = "line1\nline2"

\* ------------------------------------------------------------------ tool properties

\* A getAttachment call passed validation and its operation has settled.
GaSettled == gaPc # "idle" /\ gaOutcome # "pending"

\* The message exists and the request selects one of its attachments.
GaSelects ==
    /\ gaPc # "idle"
    /\ Exists(GaUid)
    /\ ~toolParams.data.attachmentIndex.half
    /\ toolParams.data.attachmentIndex.int + 1 \in 1..Len(mailbox[GaUid].attachments)

GaSelected == mailbox[GaUid].attachments[toolParams.data.attachmentIndex.int + 1]

\* size > maxSizeBytes, for a cap of int or int + 1/2.
OverCap(size, cap) == size >= cap.int + 1

\* C21: when the selected attachment is larger than maxSizeBytes the call
\* is rejected and no content is returned; the rejection raised by the size
\* check reports the actual size and the cap; content is returned only for
\* an attachment of size <= maxSizeBytes, and then whole.
C21_SizeLimit ==
    (GaSettled /\ GaSelects) =>
        LET cap == toolParams.data.maxSizeBytes
            att == GaSelected
        IN  /\ OverCap(att.size, cap) =>
                  /\ gaOutcome = "rejected"
                  /\ "error" \in DOMAIN GetAttachmentResponse
                  /\ (gaParse = "ok" /\ ~gaConnErr /\ ~gaFetchErr) => gaCause = "tooLarge"
                  /\ gaCause = "tooLarge" =>
                        /\ Contains(gaResult.error, "(" \o ToString(att.size) \o " bytes)")
                        /\ Contains(gaResult.error, "(" \o NumString(cap) \o " bytes)")
                        /\ Contains(GetAttachmentResponse.error, gaResult.error)
            /\ gaOutcome = "content" =>
                  /\ ~OverCap(att.size, cap)
                  /\ gaResult.size = att.size
                  /\ gaResult.content = Base64(att.content)
                  /\ GetAttachmentResponse.success

C21_Witness ==
    /\ GaSettled
    /\ GaSelects
    /\ GaSelected.size = DefaultSizeCap + 1
    /\ call.args.maxSizeBytes = Absent
    /\ gaCause = "tooLarge"
    /\ gaResult.error = "Attachment size (10485761 bytes) exceeds limit (10485760 bytes)"

C21_WitnessAtCap ==
    /\ GaSettled
    /\ GaSelects
    /\ GaSelected.size = MaxSizeCap
    /\ toolParams.data.maxSizeBytes = Num(MaxSizeCap)
    /\ gaOutcome = "content"

\* The id argument of a tool call.
IdArg == IF call.name = "getAttachment" THEN call.args.messageId ELSE call.args.id

\* C26: the arguments are validated before the operation starts: a call
\* with invalid input is rejected with no IMAP or SMTP connection opened,
\* and a connection is opened only for arguments the schema accepted.
C26_ValidatedBeforeOperation ==
    /\ toolPc = "rejected" =>
          /\ ~toolParams.ok
          /\ imapOpened = 0
          /\ smtp = "none"
          /\ gaPc = "idle" /\ gmPc = "idle" /\ tPc = "idle" /\ rPc = "idle"
    /\ imapOpened > 0 => (toolParams # None /\ toolParams.ok /\ toolPc = "running")
    /\ toolPc \in {"rejected", "running"} =>
          /\ IdArg = Str("abc") => toolPc = "rejected"
          /\ (call.name = "replyToMessage" /\ call.args.body = Text(MaxReplyBody + 1))
                => toolPc = "rejected"
          /\ (call.name = "getAttachment"
                /\ call.args.maxSizeBytes = Num(30 * 1024 * 1024)) => toolPc = "rejected"

C26_Witness ==
    /\ toolPc = "rejected"
    /\ call.name = "getAttachment"
    /\ call.args.maxSizeBytes = Num(30 * 1024 * 1024)
    /\ imapOpened = 0

C26_WitnessRunning ==
    /\ toolPc = "running"
    /\ call.name = "replyToMessage"
    /\ imapOpened = 1

\* C27: an id the GetMessage, MarkAsRead, ReplyToMessage, GetThread and
\* GetAttachment schemas accept is a non-empty string of decimal digits;
\* the empty id, non-numeric ids and injected text are rejected.
C27_IdIsNumeric ==
    toolPc \in {"rejected", "running"} =>
        /\ toolPc = "running" =>
              /\ IdArg.kind = "string"
              /\ Len(IdArg.val) >= 1
              /\ \A i \in 1..Len(IdArg.val) :
                    \E d \in 0..9 : Ch(IdArg.val, i) = ToString(d)
        /\ IdArg \in {Str(""), Str("abc"), Str("1; DROP TABLE emails;--"),
                      Str("1\n"), Str("-1"), Str(" 1"), Absent, Num(1)}
              => toolPc = "rejected"

C27_Witness ==
    /\ toolPc = "rejected"
    /\ call.name = "getMessage"
    /\ IdArg = Str("1; DROP TABLE emails;--")

C27_WitnessAccepted ==
    /\ toolPc = "running"
    /\ call.name = "getThread"
    /\ IdArg = Str("123")

\* C28: a reply body is accepted if and only if its length is between 1 and
\* 100,000 characters; includeQuote is true when omitted.
C28_ReplyBodyLength ==
    (/\ call.name = "replyToMessage"
     /\ toolPc \in {"rejected", "running"}
     /\ call.args.id = Str("1")
     /\ call.args.body.kind = "string"
     /\ call.args.includeQuote.kind \in {"absent", "boolean"})
    => /\ toolPc = "running" <=> Length(call.args.body) \in 1..100000
       /\ Length(call.args.body) = 100000 => toolPc = "running"
       /\ Length(call.args.body) \in {0, 100001} => toolPc = "rejected"
       /\ toolPc = "running" =>
             /\ toolParams.data.body = Length(call.args.body)
             /\ call.args.includeQuote = Absent => toolParams.data.includeQuote = TRUE
             /\ call.args.includeQuote.kind = "boolean"
                   => toolParams.data.includeQuote = call.args.includeQuote.val

C28_Witness ==
    /\ call.name = "replyToMessage"
    /\ toolPc = "running"
    /\ call.args.body = Text(100000)
    /\ call.args.includeQuote = Absent
    /\ toolParams.data.includeQuote

C28_WitnessTooLong ==
    /\ call.name = "replyToMessage"
    /\ toolPc = "rejected"
    /\ call.args.body = Text(100001)
    /\ call.args.includeQuote = Absent

\* C29: a getAttachment request is accepted only with attachmentIndex in
\* 0..50 (0 when omitted) and maxSizeBytes in 1..26,214,400 (10,485,760 when
\* omitted), so no getAttachment call returns the content of an attachment
\* larger than 25 MiB.
C29_AttachmentLimits ==
    (call.name = "getAttachment" /\ toolPc = "running") =>
        LET ix == toolParams.data.attachmentIndex
            cap == toolParams.data.maxSizeBytes
        IN  /\ ix.int \in 0..50 /\ (ix.half => ix.int < 50)
            /\ cap.int \in 1..26214400 /\ (cap.half => cap.int < 26214400)
            /\ call.args.attachmentIndex = Absent => ix = Num(0)
            /\ call.args.maxSizeBytes = Absent => cap = Num(10485760)
            /\ gaOutcome = "content" =>
                  /\ gaResult.size <= 26214400
                  /\ GaSelects /\ GaSelected.size <= 26214400

C29_Witness ==
    /\ call.name = "getAttachment"
    /\ call.args.maxSizeBytes = Num(MaxSizeCap)
    /\ call.args.attachmentIndex = Num(0)
    /\ gaOutcome = "content"
    /\ gaResult.size = 26214400

C29_WitnessDefaults ==
    /\ call.name = "getAttachment"
    /\ toolPc = "running"
    /\ call.args.maxSizeBytes = Absent
    /\ call.args.attachmentIndex = Absent
    /\ gaOutcome = "rejected"
    /\ gaCause = "tooLarge"

\* ------------------------------------------------------------------ header properties

IsContinuation(line) == StartsWith(line, " ") \/ StartsWith(line, "\t")

IsHeaderLine(line) == ~IsContinuation(line) /\ Includes(line, ":")

\* The name of a header line as written, and lower-cased.
WrittenName(line) == Trim(SubSeq(line, 1, IndexOf(line, ":") - 1))

NameOf(line) == ToLowerCase(WrittenName(line))

\* The header line a continuation line at j belongs to: the nearest one before it.
OwnerOf(lines, j) ==
    LET before == {i \in 1..(j - 1) : IsHeaderLine(lines[i])}
    IN  IF before = {} THEN 0 ELSE Max(before)

\* " " and the trimmed text of every continuation line of header line i
\* among lines j..Len(lines), in order.
RECURSIVE Folded(_, _, _)
Folded(lines, i, j) ==
    IF j > Len(lines) THEN ""
    ELSE (IF IsContinuation(lines[j]) /\ OwnerOf(lines, j) = i
          THEN " " \o Trim(lines[j]) ELSE "") \o Folded(lines, i, j + 1)

\* The value of header line i: its own text and its continuation lines.
ValueOf(lines, i) ==
    Trim(SubSeq(lines[i], IndexOf(lines[i], ":") + 1, Len(lines[i]))) \o Folded(lines, i, i + 1)

\* The mapping the header block stands for.
ExpectedHeaders(block) ==
    LET lines == SplitHeaderLines(block)
        named == {i \in 1..Len(lines) : IsHeaderLine(lines[i]) /\ NameOf(lines[i]) # ""}
    IN  [k \in {NameOf(lines[i]) : i \in named} |->
            ValueOf(lines, Max({i \in named : NameOf(lines[i]) = k}))]

\* The header blocks listMessages has parsed so far.
ParsedBlocks == {mailbox[n].header : n \in lsSeen}

\* C25: parseHeaders maps a header block to a mapping keyed by lower-cased
\* header name: every continuation line is joined to the value of the header
\* before it with a single space, a line without a colon is ignored, and of a
\* name occurring several times, in any letter case, the last occurrence is kept.
C25_ParseHeaders ==
    \A block \in ParsedBlocks : ParseHeaders(block) = ExpectedHeaders(block)

\* A parsed block names one header twice in different letter case.
C25_Witness ==
    \E block \in ParsedBlocks :
        LET lines == SplitHeaderLines(block)
        IN  \E i, j \in 1..Len(lines) :
                /\ i < j
                /\ IsHeaderLine(lines[i]) /\ IsHeaderLine(lines[j])
                /\ NameOf(lines[i]) = NameOf(lines[j])
                /\ NameOf(lines[i]) # ""
                /\ WrittenName(lines[i]) # WrittenName(lines[j])
                /\ ValueOf(lines, i) # ValueOf(lines, j)
                /\ ParseHeaders(block)[NameOf(lines[i])] = ValueOf(lines, j)

\* A parsed block has a line without a colon and then a continuation line
\* that is folded into the header before both.
C25_WitnessFolded ==
    \E block \in ParsedBlocks :
        LET lines == SplitHeaderLines(block)
        IN  \E i, j, k \in 1..Len(lines) :
                /\ i < j /\ j < k
                /\ IsHeaderLine(lines[i])
                /\ ~IsContinuation(lines[j]) /\ ~Includes(lines[j], ":") /\ lines[j] # ""
                /\ IsContinuation(lines[k])
                /\ ParseHeaders(block)[NameOf(lines[i])]
                       = ValueOf(lines, i) /\ Folded(lines, i, i + 1) # ""

\* ------------------------------------------------------------------ listing properties

\* The attachment descriptors a message carries.
DescriptorsOf(m) == IF "attachments" \in DOMAIN m THEN m.attachments ELSE <<>>

\* C24: in every message listMessages resolves with, hasAttachments is true
\* if and only if the message's list of attachment descriptors is non-empty.
C24_FlagMatchesDescriptors ==
    lsOutcome = "resolved" =>
        \A i \in 1..Len(lsResult) :
            lsResult[i].hasAttachments <=> DescriptorsOf(lsResult[i]) # <<>>

\* ------------------------------------------------------------------ fan-out properties

\* The batch fetch of getThread was issued.
FetchIssued == Len(parseSt) > 0

\* The code after await Promise.all ran.
FanOutAwaited == FetchIssued \/ cause = "noUids"

Elems(xs) == {xs[k] : k \in 1..Len(xs)}

\* The fan-out searches issued for one anchor token.
SearchesFor(tok) == {i \in 1..Len(searchSt) : SearchToken(i) = tok}

\* C31: one getThread invocation issues exactly two searches per anchor token,
\* one on Message-ID and one on References, and the batch fetch is issued only
\* after all 2 * |anchors| searches have reported a result or an error.
C31_FanOutThenFetch ==
    /\ Len(searchSt) > 0 =>
          /\ Len(searchSt) = 2 * Len(anchors)
          /\ \A k \in 1..Len(anchors) :
                /\ Cardinality(SearchesFor(anchors[k])) = 2
                /\ {SearchField(i) : i \in SearchesFor(anchors[k])}
                      = {"MESSAGE-ID", "REFERENCES"}
    /\ FetchIssued =>
          /\ Len(anchors) > 0
          /\ Len(searchSt) = 2 * Len(anchors)
          /\ \A i \in 1..Len(searchSt) : searchSt[i] \in {"ok", "err"}

\* The fetch was issued for several anchors, one of whose searches erred.
C31_Witness ==
    /\ FetchIssued
    /\ Len(anchors) >= 2
    /\ \E i \in 1..Len(searchSt) : searchSt[i] = "err"
    /\ \E i \in 1..Len(searchSt) : searchSt[i] = "ok"

\* What search i reports whenever it completes: a function of the mailbox, the
\* anchors and whether it erred, not of the moment it completes.
Reported(i) ==
    IF searchSt[i] = "ok" THEN SearchHeader(SearchField(i), SearchToken(i)) ELSE <<>>

\* C32: the set of ids getThread fetches after the fan-out is the union of
\* what the searches report, whatever the order in which they completed.
C32_UnionIndependentOfOrder ==
    FanOutAwaited =>
        Elems(uniqueUids) = UNION {Elems(Reported(i)) : i \in 1..Len(searchSt)}

\* A fetch whose set needs the results of at least two searches that found
\* different messages.
C32_Witness ==
    /\ FetchIssued
    /\ \E i, j \in 1..Len(searchSt) :
          /\ Reported(i) # <<>> /\ Reported(j) # <<>>
          /\ Elems(Reported(i)) \cap Elems(Reported(j)) = {}
    /\ \E i, j \in 1..Len(searchSt) :
          /\ i # j
          /\ Elems(Reported(i)) \cap Elems(Reported(j)) # {}

Erred == {i \in 1..Len(searchSt) : searchSt[i] = "err"}

Succeeded == {i \in 1..Len(searchSt) : searchSt[i] = "ok"}

\* C33: an error of one fan-out search contributes no ids and neither aborts
\* nor discards the other searches: the fetched set is the union of the results
\* of the searches that succeeded, and the singleton fallback after the fan-out
\* is taken only when that union is empty.
C33_SearchErrorIsolated ==
    /\ \A i \in Erred : searchRes[i] = <<>>
    /\ \A i \in Succeeded : searchRes[i] = SearchHeader(SearchField(i), SearchToken(i))
    /\ (Erred # {} /\ tPc = "searching") => outcome = "pending"
    /\ FetchIssued =>
          /\ Elems(uniqueUids) = UNION {Elems(searchRes[i]) : i \in Succeeded}
          /\ uniqueUids # <<>>
    /\ cause = "noUids" =>
          /\ UNION {Elems(searchRes[i]) : i \in Succeeded} = {}
          /\ result = SingletonResult(original, idText)

\* A search erred that would have found a message, and the fetch was issued
\* for what the other searches found.
C33_Witness ==
    /\ FetchIssued
    /\ \E i \in Erred : SearchHeader(SearchField(i), SearchToken(i)) # <<>>
    /\ Succeeded # {}
    /\ uniqueUids # <<>>

\* Every search that would have found a message erred: the fallback.
C33_WitnessFallback ==
    /\ cause = "noUids"
    /\ \E i \in Erred : SearchHeader(SearchField(i), SearchToken(i)) # <<>>

\* ------------------------------------------------------------------ result properties

C34_CanonicalIds ==
    (outcome = "resolved" /\ idText = ToString(uid)) =>
        /\ result.threadId = idText
        /\ result.messageCount = Len(result.messages)
        /\ \A i \in 1..Len(result.messages) : result.messages[i].threadId = idText

\* ------------------------------------------------------------------ range properties

\* The sequence numbers of the min(count, total) most recent messages.
MostRecent == {n \in 1..Len(mailbox) : n > Len(mailbox) - lsCount}

\* C35: listMessages(count) on a mailbox of total messages fetches exactly
\* the sequence range max(1, total - count + 1)..total, returns at most
\* min(count, total) messages, returns an empty list without fetching when
\* total is 0, and orders its result by descending timestamp.
C35_RecentRangeNewestFirst ==
    /\ lsPc = "fetching" =>
          /\ Elems(lsRange) = MostRecent
          /\ Len(lsRange) = Min({lsCount, Len(mailbox)})
          /\ \A i \in 1..(Len(lsRange) - 1) : lsRange[i + 1] = lsRange[i] + 1
    /\ lsSeen \subseteq MostRecent
    /\ Len(mailbox) = 0 =>
          /\ lsPc # "fetching" /\ lsRange = <<>> /\ ~lsFetchErr
          /\ lsOutcome = "resolved" => lsResult = <<>>
    /\ lsOutcome = "resolved" =>
          /\ Len(lsResult) <= Min({lsCount, Len(mailbox)})
          /\ {ToUid(lsResult[i].id) : i \in 1..Len(lsResult)} \subseteq MostRecent
          /\ \A i, j \in 1..Len(lsResult) : i < j => lsResult[i].date >= lsResult[j].date
          /\ ~lsFetchErr => Len(lsResult) = Min({lsCount, Len(mailbox)})

\* Fewer messages were asked for than the mailbox holds, and the result had to
\* be reordered.
C35_Witness ==
    /\ lsOutcome = "resolved"
    /\ 1 < lsCount /\ lsCount < Len(mailbox)
    /\ Len(lsResult) = lsCount
    /\ ToUid(lsResult[1].id) > ToUid(lsResult[2].id)
    /\ lsResult[1].date > lsResult[2].date

\* An empty mailbox: resolved with the empty list, nothing fetched.
C35_WitnessEmpty ==
    /\ Len(mailbox) = 0
    /\ lsOutcome = "resolved"
    /\ lsResult = <<>>
    /\ lsEnded

\* ------------------------------------------------------------------ settlement properties

\* The ThreadResult as the caller reads it: the fetch 'end' handler resolves
\* with an object whose messages field is the messages array itself, so what a
\* later msg 'end' handler pushes shows in it.
Held ==
    IF outcome = "resolved" /\ cause = "fetchEnd"
    THEN [result EXCEPT !.messages = messages]
    ELSE result

\* C37: once getThread has settled, no later event (a late connection 'error',
\* a late parse completion) changes the outcome the caller received.
C37_OutcomeStable ==
    [][outcome # "pending" => (outcome' = outcome /\ Held' = Held)]_vars

\* The promise itself settles once: the value it was resolved with stays.
C37_SettlesOnce ==
    [][outcome # "pending" => (outcome' = outcome /\ cause' = cause /\ result' = result)]_vars

\* One getThread invocation in which every event that can happen eventually does.
LiveSpec == Spec /\ WF_vars(Next)

\* getThread eventually settles, and so does the getMessage it awaits.
C37_EventuallySettles == <>(outcome # "pending" /\ gmOutcome # "pending")

\* ------------------------------------------------------------------ flag properties

ReadingOperations ==
    {"listMessages", "searchMessages", "getMessage", "getThread", "getAttachment"}

\* C36: markAsRead is the only operation that opens the mailbox read-write;
\* the reading operations (getMessage also being the fetch phase of
\* replyToMessage) open it read-only and leave the \Seen flags as they were,
\* while markAsRead(id, read) adds \Seen to the message when read is true and
\* removes it when read is false.
C36_OnlyMarkAsReadWrites ==
    /\ \A o \in opened :
          /\ o.op \in ReadingOperations \cup {"markAsRead"}
          /\ o.op \in ReadingOperations => o.readOnly
          /\ o.op = "markAsRead" => ~o.readOnly
    /\ mkPc = "idle" => seenFlags = seenAtCall
    /\ mkPc # "idle" =>
          /\ seenFlags \in {seenAtCall, Flagged(seenAtCall)}
          /\ (mkOutcome = "resolved" /\ mkResult.success) => seenFlags = Flagged(seenAtCall)
          /\ (mkOutcome = "resolved" /\ ~mkResult.success) => seenFlags = seenAtCall
          /\ (mkOutcome = "resolved" /\ mkResult.success /\ Exists(uid)) =>
                (uid \in seenFlags <=> mkRead)

\* getThread ran both of its connections on a mailbox with read and unread
\* messages and delivered the fetched thread.
C36_Witness ==
    /\ outcome = "resolved" /\ cause = "fetchEnd"
    /\ {o.op : o \in opened} = {"getMessage", "getThread"}
    /\ seenAtCall = {1}
    /\ Len(result.messages) >= 2

\* markAsRead(id, true) on an unread message.
C36_WitnessRead ==
    /\ mkOutcome = "resolved" /\ mkResult.success
    /\ mkRead
    /\ uid \notin seenAtCall
    /\ uid \in seenFlags

\* markAsRead(id, false) on a read message.
C36_WitnessUnread ==
    /\ mkOutcome = "resolved" /\ mkResult.success
    /\ ~mkRead
    /\ uid \in seenAtCall
    /\ uid \notin seenFlags
    /\ seenFlags # {}

\* Every reading operation got as far as fetching.
C36_WitnessList == lsOutcome = "resolved" /\ Len(lsResult) = 2 /\ seenAtCall # {}

C36_WitnessSearch == smOutcome = "resolved" /\ Len(smResult.messages) = 3 /\ seenAtCall # {}

C36_WitnessAttachment == gaOutcome = "content" /\ seenAtCall # {}

====
